---- MODULE Spec2Model ----
(***************************************************************************)
(* A model of the btx2.0 data scripts (src/scripts/*.py).                  *)
(*                                                                         *)
(* The repository is a set of independent command-line scripts, so the     *)
(* model is a set of independent state machines over one variable list:    *)
(* each script has its own variables, its own initial condition, its own   *)
(* actions and its own specification, and a specification keeps the        *)
(* variables of the other scripts at their idle values.                    *)
(*                                                                         *)
(*   Spec            refresh_data.py      (the orchestrator)               *)
(*   SpecPlayerStats scrape_player_stats.py main and its three stages      *)
(*   SpecStandings   the two ranked team aggregates                        *)
(*                   (download_datahub.py, scrape_understat.py)            *)
(*   SpecMerge       scrape_fbref.py merge_all_stats                       *)
(*   SpecLocator     scrape_fbref.py scrape_fbref_table, scrape_team_stats *)
(*   SpecNormalizer  scrape_fbref.py clean_fbref_dataframe                 *)
(*   SpecLeaguePlayers scrape_understat.py scrape_league_players           *)
(*   SpecFpl         scrape_fpl.py, the four fetch functions               *)
(*   SpecFixtures    scrape_understat.py scrape_all_fixtures               *)
(*   SpecFbrefMain   scrape_fbref.py main: the stages, then the merge      *)
(*   SpecHeaders     the field names of an extracted table                 *)
(*   SpecRefresh     refresh_data.py main with scrape_understat.py as child *)
(*   SpecSeasons     download_datahub.py download_football_data_uk         *)
(*                                                                         *)
(* Text is modelled character by character and a document token by token, *)
(* so that strip(), lower(), join() and the regular expression of the      *)
(* table locator are computed, not assumed.                                *)
(***************************************************************************)
EXTENDS Integers, Sequences, FiniteSets, TLC

VARIABLES
    \* refresh_data.py
    orch_pc, orch_answer, orch_idx, orch_child, orch_started, orch_finished,
    orch_results, orch_outcome, orch_printed,
    \* scrape_player_stats.py
    ps_pc, ps_pages, ps_ret, ps_printed, ps_saved,
    \* download_datahub.py download_current_season_detailed
    dh_pc, dh_response, dh_ret, dh_files,
    \* scrape_understat.py scrape_league_teams
    us_pc, us_page, us_ret, us_file,
    \* scrape_fbref.py merge_all_stats
    mg_pc, mg_files, mg_ret, mg_out,
    \* scrape_fbref.py clean_fbref_dataframe
    nz_pc, nz_df, nz_ret,
    \* scrape_fbref.py scrape_fbref_table, scrape_team_stats
    lc_pc, lc_page, lc_ret, lc_file,
    \* scrape_understat.py scrape_league_players
    pl_pc, pl_page, pl_ret, pl_file, pl_msg,
    \* scrape_fpl.py
    fp_pc, fp_env, fp_response, fp_result,
    \* scrape_understat.py scrape_all_fixtures
    fx_pc, fx_page, fx_files, fx_ret,
    \* scrape_fbref.py main
    fb_pc, fb_files, fb_fetched, fb_out,
    \* the field names: scrape_player_stats.py, scrape_fbref.py
    hd_pc, hd_layout, hd_headers, hd_flat,
    \* refresh_data.py main running scrape_understat.py
    rf_pc, rf_pages, rf_written, rf_wrote, rf_results, rf_printed,
    \* download_datahub.py download_football_data_uk
    sn_pc, sn_idx, sn_responses, sn_attempted, sn_all_matches, sn_files, sn_combined

orchVars == << orch_pc, orch_answer, orch_idx, orch_child, orch_started,
               orch_finished, orch_results, orch_outcome, orch_printed >>

psVars == << ps_pc, ps_pages, ps_ret, ps_printed, ps_saved >>

dhVars == << dh_pc, dh_response, dh_ret, dh_files >>

usVars == << us_pc, us_page, us_ret, us_file >>

mgVars == << mg_pc, mg_files, mg_ret, mg_out >>

nzVars == << nz_pc, nz_df, nz_ret >>

lcVars == << lc_pc, lc_page, lc_ret, lc_file >>

plVars == << pl_pc, pl_page, pl_ret, pl_file, pl_msg >>

fpVars == << fp_pc, fp_env, fp_response, fp_result >>

fxVars == << fx_pc, fx_page, fx_files, fx_ret >>

fbVars == << fb_pc, fb_files, fb_fetched, fb_out >>
hdVars == << hd_pc, hd_layout, hd_headers, hd_flat >>
rfVars == << rf_pc, rf_pages, rf_written, rf_wrote, rf_results, rf_printed >>
snVars == << sn_pc, sn_idx, sn_responses, sn_attempted, sn_all_matches, sn_files, sn_combined >>

vars == << orchVars, psVars, dhVars, usVars, mgVars, nzVars, lcVars, plVars, fpVars, fxVars, fbVars, hdVars, rfVars, snVars >>

\* The variables of the scripts other than the one an action belongs to.
notOrch == << psVars, dhVars, usVars, mgVars, nzVars, lcVars, plVars, fpVars, fxVars, fbVars, hdVars, rfVars, snVars >>
notPs == << orchVars, dhVars, usVars, mgVars, nzVars, lcVars, plVars, fpVars, fxVars, fbVars, hdVars, rfVars, snVars >>
notDh == << orchVars, psVars, usVars, mgVars, nzVars, lcVars, plVars, fpVars, fxVars, fbVars, hdVars, rfVars, snVars >>
notUs == << orchVars, psVars, dhVars, mgVars, nzVars, lcVars, plVars, fpVars, fxVars, fbVars, hdVars, rfVars, snVars >>
notMg == << orchVars, psVars, dhVars, usVars, nzVars, lcVars, plVars, fpVars, fxVars, fbVars, hdVars, rfVars, snVars >>
notNz == << orchVars, psVars, dhVars, usVars, mgVars, lcVars, plVars, fpVars, fxVars, fbVars, hdVars, rfVars, snVars >>
notLc == << orchVars, psVars, dhVars, usVars, mgVars, nzVars, plVars, fpVars, fxVars, fbVars, hdVars, rfVars, snVars >>
notPl == << orchVars, psVars, dhVars, usVars, mgVars, nzVars, lcVars, fpVars, fxVars, fbVars, hdVars, rfVars, snVars >>
notFp == << orchVars, psVars, dhVars, usVars, mgVars, nzVars, lcVars, plVars, fxVars, fbVars, hdVars, rfVars, snVars >>
notFx == << orchVars, psVars, dhVars, usVars, mgVars, nzVars, lcVars, plVars, fpVars, fbVars, hdVars, rfVars, snVars >>
notFb == << orchVars, psVars, dhVars, usVars, mgVars, nzVars, lcVars, plVars, fpVars, fxVars, hdVars, rfVars, snVars >>
notHd == << orchVars, psVars, dhVars, usVars, mgVars, nzVars, lcVars, plVars, fpVars, fxVars, fbVars, rfVars, snVars >>
notRf == << orchVars, psVars, dhVars, usVars, mgVars, nzVars, lcVars, plVars, fpVars, fxVars, fbVars, hdVars, snVars >>
notSn == << orchVars, psVars, dhVars, usVars, mgVars, nzVars, lcVars, plVars, fpVars, fxVars, fbVars, hdVars, rfVars >>

(***************************************************************************)
(* Generic helpers.                                                        *)
(***************************************************************************)

\* All sequences over S of length at most n.
SeqsUpTo(S, n) == UNION { [1..k -> S] : k \in 0..n }

\* The elements of a sequence.
Range(s) == { s[i] : i \in DOMAIN s }

\* Python's whitespace as far as the modelled alphabet has it.
WhiteSpace == { " ", "\t" }

RECURSIVE LStrip(_)
LStrip(s) ==
    IF s = << >> THEN s
    ELSE IF Head(s) \in WhiteSpace THEN LStrip(Tail(s)) ELSE s

RECURSIVE RStrip(_)
RStrip(s) ==
    IF s = << >> THEN s
    ELSE IF s[Len(s)] \in WhiteSpace THEN RStrip(SubSeq(s, 1, Len(s) - 1)) ELSE s

\* str.strip()
Strip(s) == RStrip(LStrip(s))

LowerChar(c) ==
    CASE c = "Y" -> "y"
      [] c = "N" -> "n"
      [] OTHER -> c

\* str.lower()
Lower(s) == [ i \in DOMAIN s |-> LowerChar(s[i]) ]

(***************************************************************************)
(* refresh_data.py: the orchestrator.                                      *)
(***************************************************************************)

\* Longest answer typed at the prompt.
MaxAnswerLen == 3

AnswerChars == { "y", "Y", "n", "e", " " }

Answers == SeqsUpTo(AnswerChars, MaxAnswerLen)

\* main, lines 61-63: the pipelines in call order.
PIPELINES ==
    << [ name |-> "fbref",     script |-> "scrape_fbref.py" ],
       [ name |-> "understat", script |-> "scrape_understat.py" ],
       [ name |-> "fpl",       script |-> "scrape_fpl.py" ] >>

PipelineNames == { PIPELINES[i].name : i \in DOMAIN PIPELINES }

\* What can happen to one run_scraper call.
\*   missing       the script file does not exist            (lines 16-18)
\*   launch_error  subprocess.run raises before/while starting the child
\*                 or any other exception                    (lines 39-41)
\*   exit0         the child ends with return code 0         (lines 29-31)
\*   nonzero       the child ends with another return code   (lines 32-35)
\*   timeout       120 s pass; subprocess.run kills the child, waits for it
\*                 and raises TimeoutExpired                 (lines 36-38)
ChildOutcomes == { "exit0", "nonzero", "timeout" }
Outcomes == ChildOutcomes \cup { "missing", "launch_error" }

\* run_scraper's return value for each outcome.
ReturnValue_IgnoresReturnCode(o) == o \in { "exit0", "nonzero" }
ReturnValue(o) == o = "exit0"

\* main line 54: the test on the normalised answer.
Confirmed_AnythingButNo(response) == response # << "n" >>
Confirmed(response) == response = << "y" >>

\* results[name] = value on a dict that keeps insertion order.
DictSet(d, k, v) ==
    IF \E i \in DOMAIN d : d[i].name = k
    THEN [ i \in DOMAIN d |-> IF d[i].name = k THEN [ name |-> k, ok |-> v ] ELSE d[i] ]
    ELSE Append(d, [ name |-> k, ok |-> v ])

\* main line 70: sum(1 for v in results.values() if v)
SuccessCount(d) == Cardinality({ i \in DOMAIN d : d[i].ok })

\* subprocess.run returns or raises only after the child has ended: on a
\* timeout it kills the child and waits for it before raising.
ChildrenAfterRun_NoWait(children, name) == children
ChildrenAfterRun(children, name) == children \ { name }

\* One printed line: its text, the pipeline it is about (or ""), and the two
\* numbers of the "Completed: k/n" line (0 elsewhere).
Line(text, name, k, n) == [ text |-> text, name |-> name, k |-> k, n |-> n ]

\* The position in main after the call for pipeline i has returned.
PcAfterCall(i) == IF i = Len(PIPELINES) THEN "summary" ELSE "call"

\* The orchestrator is not the script being run.
OrchIdle ==
    /\ orch_pc = "idle"
    /\ orch_answer = << >>
    /\ orch_idx = 1
    /\ orch_child = {}
    /\ orch_started = << >>
    /\ orch_finished = << >>
    /\ orch_results = << >>
    /\ orch_outcome = << >>
    /\ orch_printed = << >>

OrchInit ==
    /\ orch_pc = "input"
    /\ orch_answer = << >>
    /\ orch_idx = 1
    /\ orch_child = {}
    /\ orch_started = << >>
    /\ orch_finished = << >>
    /\ orch_results = << >>
    /\ orch_outcome = << >>
    /\ orch_printed = << >>

\* main lines 53-58: the prompt is answered.
Confirm(a) ==
    /\ orch_pc = "input"
    /\ orch_answer' = a
    /\ IF Confirmed(Lower(Strip(a)))
       THEN /\ orch_pc' = "call"
            /\ orch_printed' = orch_printed
       ELSE /\ orch_pc' = "cancelled"
            /\ orch_printed' = Append(orch_printed, Line("Cancelled.", "", 0, 0))
    /\ UNCHANGED << orch_idx, orch_child, orch_started, orch_finished,
                    orch_results, orch_outcome >>
    /\ UNCHANGED notOrch

\* run_scraper returns without a child having run: the script is missing
\* (lines 16-18) or subprocess.run raised while launching (lines 39-41).
RunScraperNoChild(o) ==
    /\ orch_pc = "call"
    /\ o \in { "missing", "launch_error" }
    /\ orch_started' = Append(orch_started, PIPELINES[orch_idx].name)
    /\ orch_finished' = Append(orch_finished, PIPELINES[orch_idx].name)
    /\ orch_outcome' = Append(orch_outcome, o)
    /\ orch_results' = DictSet(orch_results, PIPELINES[orch_idx].name, ReturnValue(o))
    /\ orch_pc' = PcAfterCall(orch_idx)
    /\ orch_idx' = orch_idx + 1
    /\ UNCHANGED << orch_answer, orch_child, orch_printed >>
    /\ UNCHANGED notOrch

\* run_scraper lines 20-27: subprocess.run has started the child.
RunScraperLaunch ==
    /\ orch_pc = "call"
    /\ orch_started' = Append(orch_started, PIPELINES[orch_idx].name)
    /\ orch_child' = orch_child \cup { PIPELINES[orch_idx].name }
    /\ orch_pc' = "child"
    /\ UNCHANGED << orch_answer, orch_idx, orch_finished, orch_results,
                    orch_outcome, orch_printed >>
    /\ UNCHANGED notOrch

\* run_scraper lines 29-38: the child has ended (or was killed at the
\* timeout); the value is stored by main.
RunScraperFinish(o) ==
    /\ orch_pc = "child"
    /\ o \in ChildOutcomes
    /\ orch_child' = ChildrenAfterRun(orch_child, PIPELINES[orch_idx].name)
    /\ orch_finished' = Append(orch_finished, PIPELINES[orch_idx].name)
    /\ orch_outcome' = Append(orch_outcome, o)
    /\ orch_results' = DictSet(orch_results, PIPELINES[orch_idx].name, ReturnValue(o))
    /\ orch_pc' = PcAfterCall(orch_idx)
    /\ orch_idx' = orch_idx + 1
    /\ UNCHANGED << orch_answer, orch_started, orch_printed >>
    /\ UNCHANGED notOrch

\* The lines main prints for the summary (lines 65-87).
SummaryLines(d) ==
    << Line("REFRESH SUMMARY", "", 0, 0) >>
    \o [ i \in DOMAIN d |->
            Line(IF d[i].ok THEN "SUCCESS" ELSE "FAILED", d[i].name, 0, 0) ]
    \o << Line("Completed", "", SuccessCount(d), Len(d)) >>
    \o << Line(IF SuccessCount(d) > 0
                THEN "Your local data has been updated!"
                ELSE "No data was updated.", "", 0, 0) >>

\* main lines 65-87.
Summary ==
    /\ orch_pc = "summary"
    /\ orch_printed' = orch_printed \o SummaryLines(orch_results)
    /\ orch_pc' = "done"
    /\ UNCHANGED << orch_answer, orch_idx, orch_child, orch_started,
                    orch_finished, orch_results, orch_outcome >>
    /\ UNCHANGED notOrch

OrchNext ==
    \/ \E a \in Answers : Confirm(a)
    \/ \E o \in Outcomes : RunScraperNoChild(o)
    \/ RunScraperLaunch
    \/ \E o \in Outcomes : RunScraperFinish(o)
    \/ Summary

(***************************************************************************)
(* Claims about the orchestrator.                                          *)
(***************************************************************************)

PipelineOrder == [ i \in DOMAIN PIPELINES |-> PIPELINES[i].name ]

IsPrefix(s, t) == Len(s) <= Len(t) /\ s = SubSeq(t, 1, Len(s))

Printed(l) == \E i \in DOMAIN orch_printed : orch_printed[i] = l

\* C1: whatever the outcome of each pipeline (exit code 0, another exit
\* code, timeout, exception while launching, script missing), a confirmed
\* main has called run_scraper for all three pipelines when it ends, has
\* recorded one boolean per pipeline name, true exactly for the pipelines
\* that ended with exit code 0, and has printed "Completed: k/3" with k the
\* number of pipelines that ended with exit code 0.
C1_AllPipelinesRunAndCounted ==
    orch_pc = "done" =>
        /\ orch_started = PipelineOrder
        /\ Len(orch_outcome) = Len(PIPELINES)
        /\ Len(orch_results) = Len(PIPELINES)
        /\ \A i \in DOMAIN PIPELINES :
              /\ orch_results[i].name = PIPELINES[i].name
              /\ orch_results[i].ok = (orch_outcome[i] = "exit0")
        /\ Printed(Line("Completed", "",
                        Cardinality({ i \in DOMAIN orch_outcome : orch_outcome[i] = "exit0" }),
                        3))

\* C1 witness: only the second pipeline fails (an exception while
\* launching it); the third has run and the count is 2/3.
C1_Witness ==
    /\ orch_pc = "done"
    /\ orch_outcome = << "exit0", "launch_error", "exit0" >>
    /\ orch_results[3] = [ name |-> "fpl", ok |-> TRUE ]
    /\ Printed(Line("Completed", "", 2, 3))

\* C2: the pipelines are started in the order fbref, understat, fpl, each
\* at most once; a pipeline is started only when every pipeline started
\* before it has finished, so at most one child process runs at any time;
\* the summary is printed only after all three have finished.
C2_SequentialFixedOrder ==
    /\ IsPrefix(orch_started, PipelineOrder)
    /\ IsPrefix(orch_finished, orch_started)
    /\ Len(orch_started) <= Len(orch_finished) + 1
    /\ Cardinality(orch_child) <= 1
    /\ orch_child \subseteq
          { orch_started[i] : i \in (DOMAIN orch_started) \ (DOMAIN orch_finished) }
    /\ (\E i \in DOMAIN orch_printed :
            orch_printed[i].text \in { "REFRESH SUMMARY", "Completed" })
          => (orch_finished = PipelineOrder /\ orch_child = {})

\* C2 witness: the second pipeline's child is running after the first one
\* was killed at its timeout.
C2_Witness ==
    /\ orch_pc = "child"
    /\ orch_started = << "fbref", "understat" >>
    /\ orch_finished = << "fbref" >>
    /\ orch_outcome = << "timeout" >>
    /\ orch_child = { "understat" }

\* An answer that strip().lower() turns into 'y': one 'y' or 'Y' with
\* nothing but whitespace around it.
IsYes(a) ==
    /\ Cardinality({ i \in DOMAIN a : a[i] \notin WhiteSpace }) = 1
    /\ \A i \in DOMAIN a : a[i] \in WhiteSpace \cup { "y", "Y" }

\* C3: no pipeline is started before the prompt is answered, and after any
\* answer other than 'y' (trimmed, lower-cased) main has returned without
\* starting a pipeline and without printing a summary.
C3_NothingRunsUnconfirmed ==
    /\ orch_pc = "input" => (orch_started = << >> /\ orch_child = {})
    /\ (orch_pc # "input" /\ ~IsYes(orch_answer)) =>
          /\ orch_pc = "cancelled"
          /\ orch_started = << >>
          /\ orch_child = {}
          /\ orch_results = << >>
          /\ orch_printed = << Line("Cancelled.", "", 0, 0) >>

\* C3 witness: the answer "yes" is not 'y'; main has returned.
C3_Witness ==
    /\ orch_pc = "cancelled"
    /\ orch_answer = << "y", "e", " " >>
    /\ orch_started = << >>

(***************************************************************************)
(* scrape_player_stats.py: main and its three stages.                      *)
(***************************************************************************)

\* What requests.get followed by raise_for_status can do.
FetchOutcomes == { "ok", "network_error", "http_error" }
FetchFailures == FetchOutcomes \ { "ok" }

\* The FBref page as scrape_fbref_player_stats looks at it: is there a
\* table with id stats_standard, has it a thead, has the thead a tr, has
\* the table a tbody.
FbrefDoc(fetch, table, thead, tr, tbody) ==
    [ fetch |-> fetch, has_table |-> table, has_thead |-> thead,
      thead_has_tr |-> tr, has_tbody |-> tbody ]

FbrefPages ==
    { FbrefDoc(f, FALSE, FALSE, FALSE, FALSE) : f \in FetchFailures }
    \cup { FbrefDoc("ok", FALSE, FALSE, FALSE, FALSE) }
    \cup { FbrefDoc("ok", TRUE, FALSE, FALSE, b) : b \in BOOLEAN }
    \cup { FbrefDoc("ok", TRUE, TRUE, t, b) : t \in BOOLEAN, b \in BOOLEAN }

\* The Understat page as scrape_understat_xg looks at it: is there a script
\* whose text contains "playersData", and what does the text cut out of it
\* (lines 92-96) hold: a JSON list with entries, an empty JSON list, or
\* text that is not JSON.
UnderstatPayloads == { "list", "empty_list", "malformed" }

UnderstatDoc(fetch, script, payload) ==
    [ fetch |-> fetch, has_script |-> script, payload |-> payload ]

UnderstatPages ==
    { UnderstatDoc(f, FALSE, "malformed") : f \in FetchFailures }
    \cup { UnderstatDoc("ok", FALSE, "malformed") }
    \cup { UnderstatDoc("ok", TRUE, p) : p \in UnderstatPayloads }

\* The Transfermarkt page: is there a table of class items.
InjuryDoc(fetch, table) == [ fetch |-> fetch, has_table |-> table ]

InjuryPages ==
    { InjuryDoc(f, FALSE) : f \in FetchFailures }
    \cup { InjuryDoc("ok", t) : t \in BOOLEAN }

\* What a stage call does: return None after printing a diagnostic, return
\* a DataFrame, or raise (exc is the exception that leaves the function).
StageResult(ret, msg) == [ ret |-> ret, msg |-> msg ]

\* scrape_fbref_player_stats. Only the fetch (lines 25-30) is inside a try.
scrape_fbref_player_stats(page) ==
    CASE page.fetch # "ok" -> StageResult("None", "Error fetching page")
      [] page.fetch = "ok" /\ ~page.has_table ->
            StageResult("None", "Could not find stats table")
      \* line 43: thead is None, None.find_all raises AttributeError
      [] page.fetch = "ok" /\ page.has_table /\ ~page.has_thead ->
            StageResult("raise", "AttributeError")
      \* line 43: find_all("tr") is empty, [-1] raises IndexError
      [] page.fetch = "ok" /\ page.has_table /\ page.has_thead /\ ~page.thead_has_tr ->
            StageResult("raise", "IndexError")
      \* line 50: tbody is None, None.find_all raises AttributeError
      [] page.fetch = "ok" /\ page.has_table /\ page.has_thead /\ page.thead_has_tr
         /\ ~page.has_tbody ->
            StageResult("raise", "AttributeError")
      [] OTHER -> StageResult("df", "Found players")

\* scrape_understat_xg. Only the fetch (lines 75-80) is inside a try;
\* json.loads (line 97) is not.
scrape_understat_xg(page) ==
    CASE page.fetch # "ok" -> StageResult("None", "Error fetching Understat")
      [] page.fetch = "ok" /\ ~page.has_script ->
            StageResult("None", "Could not find player data in Understat")
      [] page.fetch = "ok" /\ page.has_script /\ page.payload = "malformed" ->
            StageResult("raise", "JSONDecodeError")
      \* line 100: an empty list is falsy
      [] page.fetch = "ok" /\ page.has_script /\ page.payload = "empty_list" ->
            StageResult("None", "Could not find player data in Understat")
      [] OTHER -> StageResult("df", "Found players with xG data")

\* scrape_transfermarkt_injuries: a missing table gives an empty DataFrame.
scrape_transfermarkt_injuries(page) ==
    IF page.fetch # "ok"
    THEN StageResult("None", "Error fetching injuries")
    ELSE StageResult("df", "Found injured players")

\* main's stages in call order.
PsStages == << "fbref", "understat", "injuries" >>

PsIdle ==
    /\ ps_pc = "idle"
    /\ ps_pages = << >>
    /\ ps_ret = << >>
    /\ ps_printed = << >>
    /\ ps_saved = {}

\* The pages the three sites serve during this run.
PsInit ==
    /\ ps_pc = "fbref"
    /\ ps_pages \in [ fbref : FbrefPages, understat : UnderstatPages,
                      injuries : InjuryPages ]
    /\ ps_ret = [ s \in Range(PsStages) |-> "not_run" ]
    /\ ps_printed = << >>
    /\ ps_saved = {}

\* An exception raised by a stage leaves main: the interpreter prints the
\* traceback and the script ends, so the later stages never run.

\* main lines 169-174: the call, and the save when the result is not None.
MainFbref ==
    LET r == scrape_fbref_player_stats(ps_pages.fbref) IN
    /\ ps_pc = "fbref"
    /\ ps_ret' = [ ps_ret EXCEPT !["fbref"] = r.ret ]
    /\ ps_printed' = Append(ps_printed, r.msg)
    /\ ps_saved' = IF r.ret = "df" THEN ps_saved \cup { "players_fbref.csv" } ELSE ps_saved
    /\ ps_pc' = IF r.ret = "raise" THEN "crashed" ELSE "understat"
    /\ UNCHANGED ps_pages
    /\ UNCHANGED notPs

\* main lines 176-181: the call, and the save when the result is not None.
MainUnderstat ==
    LET r == scrape_understat_xg(ps_pages.understat) IN
    /\ ps_pc = "understat"
    /\ ps_ret' = [ ps_ret EXCEPT !["understat"] = r.ret ]
    /\ ps_printed' = Append(ps_printed, r.msg)
    /\ ps_saved' = IF r.ret = "df" THEN ps_saved \cup { "players_xg.csv" } ELSE ps_saved
    /\ ps_pc' = IF r.ret = "raise" THEN "crashed" ELSE "injuries"
    /\ UNCHANGED ps_pages
    /\ UNCHANGED notPs

\* main lines 183-187: the call, and the save when the result is not None.
MainInjuries ==
    LET r == scrape_transfermarkt_injuries(ps_pages.injuries) IN
    /\ ps_pc = "injuries"
    /\ ps_ret' = [ ps_ret EXCEPT !["injuries"] = r.ret ]
    /\ ps_printed' = Append(ps_printed, r.msg)
    /\ ps_saved' = IF r.ret = "df" THEN ps_saved \cup { "injuries.csv" } ELSE ps_saved
    /\ ps_pc' = IF r.ret = "raise" THEN "crashed" ELSE "footer"
    /\ UNCHANGED ps_pages
    /\ UNCHANGED notPs

\* main lines 189-191.
MainFooter ==
    /\ ps_pc = "footer"
    /\ ps_printed' = Append(ps_printed, "Scraping complete!")
    /\ ps_pc' = "done"
    /\ UNCHANGED << ps_pages, ps_ret, ps_saved >>
    /\ UNCHANGED notPs

PsNext ==
    \/ MainFbref
    \/ MainUnderstat
    \/ MainInjuries
    \/ MainFooter

(***************************************************************************)
(* Claims about scrape_player_stats.py.                                    *)
(***************************************************************************)

\* C4: each stage of main catches every failure that arises inside it
\* (fetch failure, table or payload absent, malformed HTML or JSON after a
\* successful fetch) and returns None, so no stage raises, the script never
\* ends early, and when main ends every stage has run.
C4_StageFailuresContained ==
    /\ ps_pc # "crashed"
    /\ \A s \in Range(PsStages) : s \in DOMAIN ps_ret => ps_ret[s] # "raise"
    /\ ps_pc = "done" => \A s \in Range(PsStages) : ps_ret[s] \in { "None", "df" }

(***************************************************************************)
(* Tables: what a stage returns and what a file holds.                     *)
(***************************************************************************)

\* A function's result: None, or a DataFrame with these rows.
NoneDf == [ is_none |-> TRUE, rows |-> << >> ]
Df(rows) == [ is_none |-> FALSE, rows |-> rows ]

\* A file: absent, or written with these rows.
NoFile == [ written |-> FALSE, rows |-> << >> ]
File(rows) == [ written |-> TRUE, rows |-> rows ]

\* Series.sum() of an integer column.
RECURSIVE SumField(_, _)
SumField(rows, f) ==
    IF rows = << >> THEN 0 ELSE rows[1][f] + SumField(Tail(rows), f)

\* The permutations of 1..n.
Perms(n) == { p \in [ 1..n -> 1..n ] : \A i, j \in 1..n : i # j => p[i] # p[j] }

\* DataFrame.sort_values(key, ascending=False) with the default
\* kind="quicksort": the rows come out with key descending; numpy's
\* quicksort is not a stable sort, so the order of rows with equal keys is
\* whatever the build produces. All the outcomes:
SortValuesDesc(rows, key) ==
    { [ i \in DOMAIN rows |-> rows[p[i]] ] :
        p \in { q \in Perms(Len(rows)) :
                  \A i \in 1..(Len(rows) - 1) : rows[q[i]][key] >= rows[q[i + 1]][key] } }

\* reset_index(drop=True); index = index + 1; to_csv(index=True,
\* index_label="Position"): the 1-based position becomes a column.
WithPosition(rows) == [ i \in DOMAIN rows |-> [ Position |-> i ] @@ rows[i] ]

(***************************************************************************)
(* download_datahub.py: download_current_season_detailed.                  *)
(***************************************************************************)

\* Most match rows in the downloaded season file.
MaxMatches == 2

\* The team names, in the order sorted() gives them.
TeamOrder == << "A", "B", "C" >>
Teams == Range(TeamOrder)

Fixtures == { f \in Teams \X Teams : f[1] # f[2] }

\* Full-time goals and shots of a match as the file may give them.
Scorelines ==
    { [ FTHG |-> 2, FTAG |-> 0, HS |-> 7, AS |-> 3 ],
      [ FTHG |-> 1, FTAG |-> 1, HS |-> 4, AS |-> 5 ] }

\* The values of the FTR column: home win, draw, away win.
MatchResults == { "H", "D", "A" }

\* One row of E0.csv. The result column is read as given, not derived from
\* the goals.
\* The fixture that may be listed without a result.
UnplayedFixtures == { << TeamOrder[1], TeamOrder[2] >> }

\* A row may also have empty result, goal and shot cells (FTR = ""): read_csv
\* gives NaN for them and Series.sum() skips NaN, so they count as 0.
MatchRows ==
    { [ HomeTeam |-> f[1], AwayTeam |-> f[2], FTR |-> r,
        FTHG |-> s.FTHG, FTAG |-> s.FTAG, HS |-> s.HS, AS |-> s.AS ] :
        f \in Fixtures, r \in MatchResults, s \in Scorelines }
    \cup { [ HomeTeam |-> f[1], AwayTeam |-> f[2], FTR |-> "",
             FTHG |-> 0, FTAG |-> 0, HS |-> 0, AS |-> 0 ] : f \in UnplayedFixtures }

\* What the GET of E0.csv gives: a failure, or a file with or without the
\* shots columns and with these rows.
CsvResponse(fetch, shots, rows) ==
    [ fetch |-> fetch, has_shots |-> shots, rows |-> rows ]

CsvResponses ==
    { CsvResponse(f, FALSE, << >>) : f \in FetchFailures }
    \cup { CsvResponse("ok", h, rows) :
             h \in BOOLEAN, rows \in SeqsUpTo(MatchRows, MaxMatches) }

\* line 145 and line 148: sorted(set(HomeTeam) | set(AwayTeam))
SortedTeams(df) ==
    SelectSeq(TeamOrder,
              LAMBDA t : \E i \in DOMAIN df : df[i].HomeTeam = t \/ df[i].AwayTeam = t)

\* lines 149-150
HomeRows(df, team) == SelectSeq(df, LAMBDA m : m.HomeTeam = team)
AwayRows(df, team) == SelectSeq(df, LAMBDA m : m.AwayTeam = team)

\* lines 152-158
CountResult(rows, r) == Len(SelectSeq(rows, LAMBDA m : m.FTR = r))
HomeWins(home) == CountResult(home, "H")
HomeDraws(home) == CountResult(home, "D")
HomeLosses(home) == CountResult(home, "A")
AwayWins_CountsHomeWins(away) == CountResult(away, "H")
AwayWins(away) == CountResult(away, "A")
AwayDraws(away) == CountResult(away, "D")
AwayLosses(away) == CountResult(away, "H")

\* lines 149-185: one team's record.
TeamStats(df, has_shots, team) ==
    LET home == HomeRows(df, team)
        away == AwayRows(df, team)
        goals_for == SumField(home, "FTHG") + SumField(away, "FTAG")
        goals_against == SumField(home, "FTAG") + SumField(away, "FTHG")
    IN  [ Team |-> team,
          P |-> Len(home) + Len(away),
          W |-> HomeWins(home) + AwayWins(away),
          D |-> HomeDraws(home) + AwayDraws(away),
          L |-> HomeLosses(home) + AwayLosses(away),
          GF |-> goals_for,
          GA |-> goals_against,
          GD |-> goals_for - goals_against,
          Pts |-> (HomeWins(home) + AwayWins(away)) * 3
                  + (HomeDraws(home) + AwayDraws(away)),
          Shots |-> IF has_shots
                    THEN SumField(home, "HS") + SumField(away, "AS") ELSE 0,
          ShotsAgainst |-> IF has_shots
                           THEN SumField(home, "AS") + SumField(away, "HS") ELSE 0 ]

\* lines 146-185: team_stats, one record per team in sorted order.
TeamStatsList(df, has_shots) ==
    [ i \in DOMAIN SortedTeams(df) |-> TeamStats(df, has_shots, SortedTeams(df)[i]) ]

DhFileNames == { "epl_current_season_detailed.csv", "epl_team_stats_current.csv" }

DhIdle ==
    /\ dh_pc = "idle"
    /\ dh_response = CsvResponse("ok", FALSE, << >>)
    /\ dh_ret = NoneDf
    /\ dh_files = [ f \in DhFileNames |-> NoFile ]

DhInit ==
    /\ dh_pc = "start"
    /\ dh_response \in CsvResponses
    /\ dh_ret = NoneDf
    /\ dh_files = [ f \in DhFileNames |-> NoFile ]

\* download_current_season_detailed, lines 123-202. With no rows,
\* pd.DataFrame([]) has no Pts column and sort_values raises KeyError, which
\* the except turns into None after the raw file was written.
download_current_season_detailed ==
    /\ dh_pc = "start"
    /\ dh_pc' = "done"
    /\ IF dh_response.fetch # "ok"
       THEN /\ dh_ret' = NoneDf
            /\ dh_files' = dh_files
       ELSE IF dh_response.rows = << >>
       THEN /\ dh_ret' = NoneDf
            /\ dh_files' = [ dh_files EXCEPT
                  !["epl_current_season_detailed.csv"] = File(dh_response.rows) ]
       ELSE \E sorted \in SortValuesDesc(
                    TeamStatsList(dh_response.rows, dh_response.has_shots), "Pts") :
            /\ dh_ret' = Df(WithPosition(sorted))
            /\ dh_files' = [ dh_files EXCEPT
                  !["epl_current_season_detailed.csv"] = File(dh_response.rows),
                  !["epl_team_stats_current.csv"] = File(WithPosition(sorted)) ]
    /\ UNCHANGED dh_response
    /\ UNCHANGED notDh

DhNext == download_current_season_detailed

(***************************************************************************)
(* scrape_understat.py: scrape_league_teams.                               *)
(***************************************************************************)

\* Goals and expected goals of a match as Understat gives them. Expected
\* goals are in thousandths and multiples of 1/8: binary floating point
\* holds them exactly, so with at most four matches per team every sum,
\* every quotient that is a tie of the rounding, and hence every round()
\* below is exact.
UsScorelines ==
    { [ hg |-> 2, ag |-> 0, hxg |-> 1375, axg |-> 250 ],
      [ hg |-> 1, ag |-> 1, hxg |-> 875,  axg |-> 1125 ] }

\* A history entry may also lack its result, goal and xG fields
\* (res = ""): get() then gives None for the result and 0 for the others.
UsMatches ==
    { [ home |-> f[1], away |-> f[2], res |-> r, line |-> s ] :
        f \in Fixtures, r \in MatchResults, s \in UsScorelines }
    \cup { [ home |-> f[1], away |-> f[2], res |-> "",
             line |-> [ hg |-> 0, ag |-> 0, hxg |-> 0, axg |-> 0 ] ] :
             f \in UnplayedFixtures }

\* One entry of a team's history for a match the team played in; the
\* result is "" when the entry has no result field.
HistoryEntry(m, team) ==
    IF m.res = ""
    THEN [ result |-> "",
           scored |-> IF m.home = team THEN m.line.hg ELSE m.line.ag,
           missed |-> IF m.home = team THEN m.line.ag ELSE m.line.hg,
           xG |-> IF m.home = team THEN m.line.hxg ELSE m.line.axg,
           xGA |-> IF m.home = team THEN m.line.axg ELSE m.line.hxg ]
    ELSE IF m.home = team
    THEN [ result |-> CASE m.res = "H" -> "w" [] m.res = "D" -> "d" [] OTHER -> "l",
           scored |-> m.line.hg, missed |-> m.line.ag,
           xG |-> m.line.hxg, xGA |-> m.line.axg ]
    ELSE [ result |-> CASE m.res = "A" -> "w" [] m.res = "D" -> "d" [] OTHER -> "l",
           scored |-> m.line.ag, missed |-> m.line.hg,
           xG |-> m.line.axg, xGA |-> m.line.hxg ]

RECURSIVE HistoryOf(_, _)
HistoryOf(ms, team) ==
    IF ms = << >> THEN << >>
    ELSE IF team \in { ms[1].home, ms[1].away }
    THEN << HistoryEntry(ms[1], team) >> \o HistoryOf(Tail(ms), team)
    ELSE HistoryOf(Tail(ms), team)

\* teamsData after a season of these matches: every team of the league has
\* an entry, in the page's order, also a team that has not played yet.
TeamsDataOf(ms) ==
    [ i \in DOMAIN TeamOrder |->
        [ id |-> i, title |-> TeamOrder[i], history |-> HistoryOf(ms, TeamOrder[i]) ] ]

\* What the GET of the league page gives: a failure, or a page in which the
\* teamsData assignment is absent, present with a payload that does not
\* decode or parse, or present with this mapping.
TeamsPage(fetch, var, teams) == [ fetch |-> fetch, var |-> var, teams |-> teams ]

TeamsPages ==
    { TeamsPage(f, "absent", << >>) : f \in FetchFailures }
    \cup { TeamsPage("ok", v, << >>) : v \in { "absent", "malformed", "present" } }
    \cup { TeamsPage("ok", "present", TeamsDataOf(ms)) :
             ms \in SeqsUpTo(UsMatches, MaxMatches) }

\* Python's round() to the nearest multiple of den, on an exact value:
\* round half to even.
RoundHalfEvenNat(num, den) ==
    LET q == num \div den
        r == num % den
    IN  IF 2 * r < den THEN q
        ELSE IF 2 * r > den THEN q + 1
        ELSE IF q % 2 = 0 THEN q ELSE q + 1

RoundHalfEven(num, den) ==
    IF num >= 0 THEN RoundHalfEvenNat(num, den) ELSE 0 - RoundHalfEvenNat(0 - num, den)

\* round(x, 2) of a value in thousandths, as hundredths.
Round2(x) == RoundHalfEven(x, 10)

\* round(total / n, 2) of a total in thousandths, as hundredths.
Round2Div_NoDivision(total, n) == RoundHalfEven(total, 10)
Round2Div(total, n) == RoundHalfEven(total, 10 * n)

\* lines 130-132
CountTag(history, tag) == Len(SelectSeq(history, LAMBDA m : m.result = tag))

\* lines 121-150: one team's record.
TeamRecord(team_info) ==
    LET history == team_info.history
        total_xG == SumField(history, "xG")
        total_xGA == SumField(history, "xGA")
        total_scored == SumField(history, "scored")
        total_missed == SumField(history, "missed")
        total_wins == CountTag(history, "w")
        total_draws == CountTag(history, "d")
        total_losses == CountTag(history, "l")
    IN  [ team |-> team_info.title,
          id |-> team_info.id,
          played |-> Len(history),
          wins |-> total_wins,
          draws |-> total_draws,
          losses |-> total_losses,
          goals_for |-> total_scored,
          goals_against |-> total_missed,
          goal_diff |-> total_scored - total_missed,
          points |-> total_wins * 3 + total_draws,
          xG |-> Round2(total_xG),
          xGA |-> Round2(total_xGA),
          xG_diff |-> Round2(total_xG - total_xGA),
          xG_per_game |-> IF history # << >>
                          THEN Round2Div(total_xG, Len(history)) ELSE 0,
          xGA_per_game |-> IF history # << >>
                           THEN Round2Div(total_xGA, Len(history)) ELSE 0 ]

\* lines 119-150: teams_list, one record per entry of teamsData, in its order.
TeamsList(teams_data) == [ i \in DOMAIN teams_data |-> TeamRecord(teams_data[i]) ]

UsIdle ==
    /\ us_pc = "idle"
    /\ us_page = TeamsPage("ok", "absent", << >>)
    /\ us_ret = NoneDf
    /\ us_file = NoFile

UsInit ==
    /\ us_pc = "start"
    /\ us_page \in TeamsPages
    /\ us_ret = NoneDf
    /\ us_file = NoFile

\* scrape_league_teams, lines 103-172. extract_json_data gives None when the
\* assignment is absent and raises when the payload does not decode or
\* parse; the except of line 169 turns that into None. An empty mapping is
\* falsy and takes the else branch of line 166.
scrape_league_teams ==
    /\ us_pc = "start"
    /\ us_pc' = "done"
    /\ IF us_page.fetch # "ok" \/ us_page.var # "present" \/ us_page.teams = << >>
       THEN /\ us_ret' = NoneDf
            /\ us_file' = us_file
       ELSE \E sorted \in SortValuesDesc(TeamsList(us_page.teams), "points") :
            /\ us_ret' = Df(WithPosition(sorted))
            /\ us_file' = File(WithPosition(sorted))
    /\ UNCHANGED us_page
    /\ UNCHANGED notUs

UsNext == scrape_league_teams

(***************************************************************************)
(* Claims about the two ranked team aggregates.                            *)
(***************************************************************************)

\* The sum of field f over the rows of df whose index is in S.
RECURSIVE SumOver(_, _, _)
SumOver(df, S, f) ==
    IF S = {} THEN 0
    ELSE LET i == CHOOSE i \in S : TRUE IN df[i][f] + SumOver(df, S \ { i }, f)

HomeIdx(df, t) == { i \in DOMAIN df : df[i].HomeTeam = t }
AwayIdx(df, t) == { i \in DOMAIN df : df[i].AwayTeam = t }
WithFTR(df, S, r) == { i \in S : df[i].FTR = r }

\* C5: for every team of the downloaded matches (results in H, D, A) the
\* standings row has W = home matches with H + away matches with A,
\* D = matches in either role with D, L = home matches with A + away
\* matches with H, GF = home FTHG + away FTAG, GA = home FTAG + away FTHG
\* and Pts = 3*W + D; there is one row per team, and the written file holds
\* the returned table.
C5_StandingsAggregation ==
    (dh_pc = "done" /\ ~dh_ret.is_none) =>
        LET df == dh_response.rows
            out == dh_ret.rows
        IN  /\ { out[k].Team : k \in DOMAIN out }
                 = { df[i].HomeTeam : i \in DOMAIN df } \cup { df[i].AwayTeam : i \in DOMAIN df }
            /\ \A j, k \in DOMAIN out : out[j].Team = out[k].Team => j = k
            /\ dh_files["epl_team_stats_current.csv"] = File(out)
            /\ \A k \in DOMAIN out :
                 LET t == out[k].Team
                     H == HomeIdx(df, t)
                     A == AwayIdx(df, t)
                 IN  /\ out[k].W = Cardinality(WithFTR(df, H, "H")) + Cardinality(WithFTR(df, A, "A"))
                     /\ out[k].D = Cardinality(WithFTR(df, H \cup A, "D"))
                     /\ out[k].L = Cardinality(WithFTR(df, H, "A")) + Cardinality(WithFTR(df, A, "H"))
                     /\ out[k].GF = SumOver(df, H, "FTHG") + SumOver(df, A, "FTAG")
                     /\ out[k].GA = SumOver(df, H, "FTAG") + SumOver(df, A, "FTHG")
                     /\ out[k].Pts = 3 * out[k].W + out[k].D

\* C5 witness: A beats B 2-0 at home, B draws 1-1 away at C; A's row shows
\* one win, no draw, no loss, 3 points, 2 goals for, 0 against.
C5_Witness ==
    /\ dh_pc = "done"
    /\ ~dh_ret.is_none
    /\ Len(dh_response.rows) = 2
    /\ dh_response.rows[1].HomeTeam = "A" /\ dh_response.rows[1].AwayTeam = "B"
    /\ dh_response.rows[1].FTR = "H"
    /\ dh_response.rows[1].FTHG = 2 /\ dh_response.rows[1].FTAG = 0
    /\ dh_response.rows[2].HomeTeam = "C" /\ dh_response.rows[2].AwayTeam = "B"
    /\ dh_response.rows[2].FTR = "D"
    /\ dh_response.rows[2].FTHG = 1 /\ dh_response.rows[2].FTAG = 1
    /\ \E k \in DOMAIN dh_ret.rows :
          /\ dh_ret.rows[k].Team = "A"
          /\ dh_ret.rows[k].W = 1 /\ dh_ret.rows[k].D = 0 /\ dh_ret.rows[k].L = 0
          /\ dh_ret.rows[k].Pts = 3 /\ dh_ret.rows[k].GF = 2 /\ dh_ret.rows[k].GA = 0

\* The place of a team in the order the records were built in.
BuiltAt(team) == CHOOSE i \in DOMAIN TeamOrder : TeamOrder[i] = team

\* A ranked table: key descending, rows with equal keys in the order they
\* were built in, and the Position column exactly 1, 2, ..., N.
RankedStable(out, key, name) ==
    /\ \A k \in DOMAIN out : out[k].Position = k
    /\ \A j, k \in DOMAIN out : j < k => out[j][key] >= out[k][key]
    /\ \A j, k \in DOMAIN out :
          (j < k /\ out[j][key] = out[k][key]) => BuiltAt(out[j][name]) < BuiltAt(out[k][name])

\* C6: both ranked aggregates are ordered by points descending, teams with
\* equal points keep the order their records were built in, and the rank
\* column is exactly 1, 2, ..., N.
C6_RankedStableByPoints ==
    /\ (dh_pc = "done" /\ ~dh_ret.is_none) => RankedStable(dh_ret.rows, "Pts", "Team")
    /\ (us_pc = "done" /\ ~us_ret.is_none) => RankedStable(us_ret.rows, "points", "team")

\* C25: in both team aggregates every output team record has
\* played = wins + draws + losses and goal difference = goals for - goals
\* against, for every input the stage accepts, also when a match has no
\* result or a result outside the expected values.
C25_PlayedAndGoalDifference ==
    /\ (dh_pc = "done" /\ ~dh_ret.is_none) =>
          \A k \in DOMAIN dh_ret.rows :
              /\ dh_ret.rows[k].P = dh_ret.rows[k].W + dh_ret.rows[k].D + dh_ret.rows[k].L
              /\ dh_ret.rows[k].GD = dh_ret.rows[k].GF - dh_ret.rows[k].GA
    /\ (us_pc = "done" /\ ~us_ret.is_none) =>
          \A k \in DOMAIN us_ret.rows :
              /\ us_ret.rows[k].played
                   = us_ret.rows[k].wins + us_ret.rows[k].draws + us_ret.rows[k].losses
              /\ us_ret.rows[k].goal_diff
                   = us_ret.rows[k].goals_for - us_ret.rows[k].goals_against

\* The halves of C25 taken apart: the goal difference in both aggregates,
\* and the played count of each aggregate.
GoalDifferenceHolds ==
    /\ (dh_pc = "done" /\ ~dh_ret.is_none) =>
          \A k \in DOMAIN dh_ret.rows :
              dh_ret.rows[k].GD = dh_ret.rows[k].GF - dh_ret.rows[k].GA
    /\ (us_pc = "done" /\ ~us_ret.is_none) =>
          \A k \in DOMAIN us_ret.rows :
              us_ret.rows[k].goal_diff
                = us_ret.rows[k].goals_for - us_ret.rows[k].goals_against

PlayedHoldsDatahub ==
    (dh_pc = "done" /\ ~dh_ret.is_none) =>
        \A k \in DOMAIN dh_ret.rows :
            dh_ret.rows[k].P = dh_ret.rows[k].W + dh_ret.rows[k].D + dh_ret.rows[k].L

PlayedHoldsUnderstat ==
    (us_pc = "done" /\ ~us_ret.is_none) =>
        \A k \in DOMAIN us_ret.rows :
            us_ret.rows[k].played
              = us_ret.rows[k].wins + us_ret.rows[k].draws + us_ret.rows[k].losses

\* The entries of a history that carry this tag.
Tagged(history, tag) == { k \in DOMAIN history : history[k].result = tag }

\* x (in hundredths) is total / n (total in thousandths) rounded to two
\* decimals: no multiple of 0.01 is nearer to the quotient.
IsRounded2(x, total, n) ==
    LET diff == x * 10 * n - total
    IN  diff <= 5 * n /\ 0 - diff <= 5 * n

\* C13: every team of teamsData has one row in understat_teams.csv, with
\* played = number of history entries, goals_for and goals_against the sums
\* of scored and missed, points = 3 * (entries tagged w) + (entries tagged
\* d), and the per-game rates the season sums divided by played, rounded
\* to two decimals; a team without history has rates 0 and the stage still
\* writes the file.
C13_SeasonAggregation ==
    (us_pc = "done" /\ us_page.fetch = "ok" /\ us_page.var = "present" /\ us_page.teams # << >>) =>
        /\ us_file.written
        /\ us_ret = Df(us_file.rows)
        /\ Len(us_file.rows) = Len(us_page.teams)
        /\ \A i \in DOMAIN us_page.teams :
              \E k \in DOMAIN us_file.rows :
                  LET h == us_page.teams[i].history
                      r == us_file.rows[k]
                  IN  /\ r.id = us_page.teams[i].id
                      /\ r.team = us_page.teams[i].title
                      /\ r.played = Len(h)
                      /\ r.goals_for = SumOver(h, DOMAIN h, "scored")
                      /\ r.goals_against = SumOver(h, DOMAIN h, "missed")
                      /\ r.points = 3 * Cardinality(Tagged(h, "w")) + Cardinality(Tagged(h, "d"))
                      /\ IF h = << >>
                         THEN r.xG_per_game = 0 /\ r.xGA_per_game = 0
                         ELSE /\ IsRounded2(r.xG_per_game, SumOver(h, DOMAIN h, "xG"), Len(h))
                              /\ IsRounded2(r.xGA_per_game, SumOver(h, DOMAIN h, "xGA"), Len(h))

\* C13 witness: a team with two matches (xG 1.375 and 0.875, 1.125 per
\* game, written as 1.12) next to a team that has not played.
C13_Witness ==
    /\ us_pc = "done"
    /\ us_file.written
    /\ \E k \in DOMAIN us_file.rows :
          /\ us_file.rows[k].played = 2
          /\ us_file.rows[k].points = 4
          /\ us_file.rows[k].xG_per_game = 112
    /\ \E k \in DOMAIN us_file.rows :
          /\ us_file.rows[k].played = 0
          /\ us_file.rows[k].xG_per_game = 0

(***************************************************************************)
(* scrape_fbref.py: merge_all_stats.                                       *)
(***************************************************************************)

\* Most rows in a player file.
MaxRows == 2

\* A CSV file as pd.read_csv returns it: the column names in order (read_csv
\* makes them distinct) and the rows, each a function from column name to
\* the cell's text. A file that does not exist has exists = FALSE.
Table(cols, rows) == [ exists |-> TRUE, cols |-> cols, rows |-> rows ]
NoTable == [ exists |-> FALSE, cols |-> << >>, rows |-> << >> ]

Players == { "Smith", "Jones" }

\* line 219: the names tried for the player column, in order.
PlayerColCandidates == << "Player", "player", "Unnamed: 0_level_1_Player" >>

\* The rows over these columns whose cells come from vals[column].
RowsOver(cols, vals) ==
    { r \in [ Range(cols) -> UNION { vals[c] : c \in Range(cols) } ] :
        \A c \in Range(cols) : r[c] \in vals[c] }

TablesOver(cols, vals, n) ==
    { Table(cols, rows) : rows \in SeqsUpTo(RowsOver(cols, vals), n) }

\* fbref_standard_stats.csv: the base, with or without a column that
\* line 219 recognises as the player column.
StandardValues ==
    [ c \in { "Player", "Unnamed: 1_level_0_Player", "goals" } |->
        IF c = "goals" THEN { "5", "7" } ELSE Players ]

StandardTables ==
    { NoTable }
    \cup TablesOver(<< "Player", "goals" >>, StandardValues, MaxRows)
    \cup TablesOver(<< "Unnamed: 1_level_0_Player", "goals" >>, StandardValues, MaxRows)

\* fbref_shooting_stats.csv: an overlay that may repeat the base's goals
\* column with other values, may lack the player column, and may hold the
\* same player in more than one row.
ShootingValues ==
    [ c \in { "Player", "player", "goals", "assists" } |->
        CASE c = "goals" -> { "99" }
          [] c = "assists" -> { "3" }
          [] OTHER -> Players ]

ShootingTables ==
    { NoTable }
    \cup TablesOver(<< "Player", "goals", "assists" >>, ShootingValues, MaxRows)
    \cup TablesOver(<< "Player", "assists" >>, ShootingValues, MaxRows)
    \cup TablesOver(<< "Player", "goals" >>, ShootingValues, MaxRows)
    \cup TablesOver(<< "player", "assists" >>, ShootingValues, MaxRows)

\* fbref_defensive_stats.csv: repeats a column the shooting overlay may
\* have added already.
DefensiveTables ==
    { NoTable,
      Table(<< "Player", "assists", "tackles" >>,
            << [ Player |-> "Smith", assists |-> "8", tackles |-> "1" ] >>),
      Table(<< "Player", "assists", "tackles" >>,
            << [ Player |-> "Jones", assists |-> "8", tackles |-> "2" ] >>) }

\* fbref_gca_stats.csv
GcaTables ==
    { NoTable,
      Table(<< "Player", "sca" >>, << [ Player |-> "Smith", sca |-> "4" ] >>) }

\* line 196-201: the files in the order the dict is walked.
MergeFileOrder == << "standard", "shooting", "defensive", "gca" >>

\* df[new_cols]
Project(t, cols) ==
    Table(cols, [ i \in DOMAIN t.rows |-> [ c \in Range(cols) |-> t.rows[i][c] ] ])

\* The columns of left.merge(right, on=key, how="left"): the left columns,
\* then the right columns other than the key; a column that both sides
\* have gets the suffixes _x and _y.
MergeNames(lcols, rcols, key) ==
    LET overlap == (Range(lcols) \cap Range(rcols)) \ { key }
        rest == SelectSeq(rcols, LAMBDA c : c # key)
    IN  [ i \in DOMAIN lcols |-> IF lcols[i] \in overlap THEN lcols[i] \o "_x" ELSE lcols[i] ]
        \o [ i \in DOMAIN rest |-> IF rest[i] \in overlap THEN rest[i] \o "_y" ELSE rest[i] ]

\* Where each merged column comes from.
MergeSources(lcols, rcols, key) ==
    LET rest == SelectSeq(rcols, LAMBDA c : c # key)
    IN  [ i \in DOMAIN lcols |-> [ side |-> "L", col |-> lcols[i] ] ]
        \o [ i \in DOMAIN rest |-> [ side |-> "R", col |-> rest[i] ] ]

\* One merged row: the left row's cells, and the matching right row's cells
\* (NaN when no right row matches).
MergeRow(names, src, l, r, matched) ==
    [ n \in Range(names) |->
        LET i == CHOOSE i \in DOMAIN names : names[i] = n
        IN  IF src[i].side = "L" THEN l[src[i].col]
            ELSE IF matched THEN r[src[i].col] ELSE "NaN" ]

\* The rows of a left join: for each left row in order, one row per right
\* row with the same key, in the right's order, or one row with NaN.
RECURSIVE MergeRows(_, _, _, _, _)
MergeRows(lrows, rrows, key, names, src) ==
    IF lrows = << >> THEN << >>
    ELSE LET l == lrows[1]
             hits == SelectSeq(rrows, LAMBDA r : r[key] = l[key])
             here == IF hits = << >>
                     THEN << MergeRow(names, src, l, l, FALSE) >>
                     ELSE [ j \in DOMAIN hits |-> MergeRow(names, src, l, hits[j], TRUE) ]
         IN  here \o MergeRows(Tail(lrows), rrows, key, names, src)

\* left.merge(right, on=key, how="left")
LeftMerge(left, right, key) ==
    LET names == MergeNames(left.cols, right.cols, key)
        src == MergeSources(left.cols, right.cols, key)
    IN  Table(names, MergeRows(left.rows, right.rows, key, names, src))

\* lines 218-222: the first candidate that is a column of the base, or ""
\* for None.
PlayerCol(cols) ==
    LET found == SelectSeq(PlayerColCandidates, LAMBDA c : c \in Range(cols))
    IN  IF found = << >> THEN "" ELSE found[1]

\* line 229: the columns of the overlay not yet in merged, and the key.
NewCols_TakesAll(df_cols, merged_cols, player_col) == df_cols
NewCols(df_cols, merged_cols, player_col) ==
    SelectSeq(df_cols, LAMBDA c : c \notin Range(merged_cols) \/ c = player_col)

\* lines 226-231: the loop over the loaded overlays, in dict order.
RECURSIVE MergeOverlays(_, _, _)
MergeOverlays(merged, overlays, player_col) ==
    IF overlays = << >> THEN merged
    ELSE LET df == overlays[1]
             new_cols == NewCols(df.cols, merged.cols, player_col)
             step == IF player_col \in Range(df.cols) /\ Len(new_cols) > 1
                     THEN LeftMerge(merged, Project(df, new_cols), player_col)
                     ELSE merged
         IN  MergeOverlays(step, Tail(overlays), player_col)

\* lines 203-207: the overlays that were loaded, in dict order.
LoadedOverlays(files) ==
    LET names == SelectSeq(MergeFileOrder, LAMBDA n : n # "standard" /\ files[n].exists)
    IN  [ i \in DOMAIN names |-> files[names[i]] ]

\* lines 214-231: the merged table for a loaded base.
MergedTable(files) ==
    LET base == files["standard"]
        player_col == PlayerCol(base.cols)
    IN  IF player_col = "" THEN base
        ELSE MergeOverlays(base, LoadedOverlays(files), player_col)

MgIdle ==
    /\ mg_pc = "idle"
    /\ mg_files = [ n \in Range(MergeFileOrder) |-> NoTable ]
    /\ mg_ret = NoTable
    /\ mg_out = NoTable

\* The four files as the data directory holds them when merge_all_stats
\* starts.
MgInit ==
    /\ mg_pc = "start"
    /\ \E st \in StandardTables, sh \in ShootingTables,
          de \in DefensiveTables, gc \in GcaTables :
          mg_files = [ n \in Range(MergeFileOrder) |->
                         CASE n = "standard" -> st
                           [] n = "shooting" -> sh
                           [] n = "defensive" -> de
                           [] OTHER -> gc ]
    /\ mg_ret = NoTable
    /\ mg_out = NoTable

\* merge_all_stats, lines 192-240. The result is None (NoTable) when no
\* file exists or the standard file is not among them.
merge_all_stats ==
    /\ mg_pc = "start"
    /\ mg_pc' = "done"
    /\ IF mg_files["standard"].exists
       THEN /\ mg_ret' = MergedTable(mg_files)
            /\ mg_out' = MergedTable(mg_files)
       ELSE /\ mg_ret' = NoTable
            /\ mg_out' = mg_out
    /\ UNCHANGED mg_files
    /\ UNCHANGED notMg

MgNext == merge_all_stats

(***************************************************************************)
(* Claims about merge_all_stats.                                           *)
(***************************************************************************)

NoRepeat(seq) == \A i, j \in DOMAIN seq : seq[i] = seq[j] => i = j

AgreesOn(cols, r, b) == \A c \in Range(cols) : r[c] = b[c]

\* C7: every field of the base (standard) set is a field of the merged set
\* and has, in every merged record, the value it has in the base record the
\* merged record was made from, also when an overlay carries a field of the
\* same name with another value; an overlay only adds fields whose names
\* are absent from the set merged so far, so no field name occurs twice and
\* every added field is a field of some overlay.
C7_BaseFieldsNeverOverwritten ==
    (mg_pc = "done" /\ mg_files["standard"].exists) =>
        LET base == mg_files["standard"]
            overlays == LoadedOverlays(mg_files)
        IN  /\ mg_out = mg_ret
            /\ mg_out.exists
            /\ IsPrefix(base.cols, mg_out.cols)
            /\ NoRepeat(mg_out.cols)
            /\ \A c \in Range(mg_out.cols) \ Range(base.cols) :
                  \E k \in DOMAIN overlays : c \in Range(overlays[k].cols)
            /\ \A i \in DOMAIN mg_out.rows :
                  \E j \in DOMAIN base.rows : AgreesOn(base.cols, mg_out.rows[i], base.rows[j])
            /\ \A j \in DOMAIN base.rows :
                  \E i \in DOMAIN mg_out.rows : AgreesOn(base.cols, mg_out.rows[i], base.rows[j])

\* C7 witness: base Smith goals=5, overlay Smith goals=99 assists=3; the
\* merged record has goals=5 and assists=3.
C7_Witness ==
    /\ mg_pc = "done"
    /\ mg_files["standard"] =
          Table(<< "Player", "goals" >>, << [ Player |-> "Smith", goals |-> "5" ] >>)
    /\ mg_files["shooting"] =
          Table(<< "Player", "goals", "assists" >>,
                << [ Player |-> "Smith", goals |-> "99", assists |-> "3" ] >>)
    /\ ~mg_files["defensive"].exists
    /\ ~mg_files["gca"].exists
    /\ mg_out = Table(<< "Player", "goals", "assists" >>,
                      << [ Player |-> "Smith", goals |-> "5", assists |-> "3" ] >>)

\* C24: merge_all_stats writes exactly one merged record per record of the
\* base (standard) set, in base order, also when an overlay holds the same
\* player key in more than one record: fbref_all_stats.csv has as many
\* records as the base set, and its i-th record is made from the i-th base
\* record.
C24_OneRecordPerBaseRecord ==
    (mg_pc = "done" /\ mg_files["standard"].exists) =>
        LET base == mg_files["standard"]
        IN  /\ Len(mg_out.rows) = Len(base.rows)
            /\ \A i \in DOMAIN mg_out.rows : AgreesOn(base.cols, mg_out.rows[i], base.rows[i])

(***************************************************************************)
(* scrape_fbref.py: clean_fbref_dataframe.                                 *)
(***************************************************************************)

\* A cell of a DataFrame: a string, a number or NaN.
Str(s) == [ kind |-> "str", s |-> s, n |-> 0 ]
Num(n) == [ kind |-> "num", s |-> "", n |-> n ]
NaN == [ kind |-> "nan", s |-> "", n |-> 0 ]

\* A DataFrame: its column labels in order (each the tuple of its level
\* labels; one level when the columns are a flat Index), whether the
\* columns are a MultiIndex, the index labels of its rows, and the rows as
\* tuples of cells, one cell per column.
Frame(columns, multi, index, rows) ==
    [ is_none |-> FALSE, columns |-> columns, multi |-> multi,
      index |-> index, rows |-> rows ]
NoFrame ==
    [ is_none |-> TRUE, columns |-> << >>, multi |-> FALSE,
      index |-> << >>, rows |-> << >> ]

CharAt(s, i) == SubSeq(s, i, i)

\* str.strip(chars) for a one-character set of chars.
RECURSIVE LStripChar(_, _)
LStripChar(s, c) ==
    IF s = "" THEN s
    ELSE IF CharAt(s, 1) = c THEN LStripChar(SubSeq(s, 2, Len(s)), c) ELSE s

RECURSIVE RStripChar(_, _)
RStripChar(s, c) ==
    IF s = "" THEN s
    ELSE IF CharAt(s, Len(s)) = c THEN RStripChar(SubSeq(s, 1, Len(s) - 1), c) ELSE s

StripChar(s, c) == RStripChar(LStripChar(s, c), c)

\* sep.join(parts)
RECURSIVE Join(_, _)
Join(sep, parts) ==
    IF parts = << >> THEN ""
    ELSE IF Len(parts) = 1 THEN parts[1]
    ELSE parts[1] \o sep \o Join(sep, Tail(parts))

\* lines 103-104: the flat name of a hierarchical label.
FlattenLabel(col) ==
    StripChar(Join("_", SelectSeq(col, LAMBDA c : c # "")), "_")

\* lines 102-104: the column names after the flattening step.
FlatColumns(df) ==
    IF df.multi
    THEN [ j \in DOMAIN df.columns |-> << FlattenLabel(df.columns[j]) >> ]
    ELSE df.columns

\* The name of a column of a flat Index.
ColName(col) == col[1]

\* A filter that drops the first row by position, whatever it holds.
KeptPositions_ByPosition(columns, rows) == [ i \in 1..(Len(rows) - 1) |-> i + 1 ]

\* line 107: the positions of the rows whose first cell differs from the
\* name of the first column.
KeptPositions(columns, rows) ==
    LET RECURSIVE Keep(_)
        Keep(i) ==
            IF i > Len(rows) THEN << >>
            ELSE (IF rows[i][1] # Str(ColName(columns[1])) THEN << i >> ELSE << >>)
                 \o Keep(i + 1)
    IN  Keep(1)

\* line 111: the names that are not converted.
IdentityColumns == { "Player", "Squad", "Nation", "Pos", "Comp", "Born" }

Digits == { "0", "1", "2", "3", "4", "5", "6", "7", "8", "9" }

DigitValue(c) ==
    CASE c = "0" -> 0 [] c = "1" -> 1 [] c = "2" -> 2 [] c = "3" -> 3
      [] c = "4" -> 4 [] c = "5" -> 5 [] c = "6" -> 6 [] c = "7" -> 7
      [] c = "8" -> 8 [] OTHER -> 9

IsDigits(s) == s # "" /\ \A i \in 1..Len(s) : CharAt(s, i) \in Digits

RECURSIVE ParseNat(_)
ParseNat(s) ==
    IF s = "" THEN 0
    ELSE ParseNat(SubSeq(s, 1, Len(s) - 1)) * 10 + DigitValue(CharAt(s, Len(s)))

\* pd.to_numeric(errors="coerce") on one cell: a number stays, a string of
\* digits becomes its number, every other value becomes NaN.
ToNumeric(cell) ==
    CASE cell.kind = "num" -> cell
      [] cell.kind = "str" /\ IsDigits(cell.s) -> Num(ParseNat(cell.s))
      [] OTHER -> NaN

\* lines 110-115: is column j converted? Not when its name is an identity
\* name; not when the name occurs more than once, since df[col] is then a
\* DataFrame, to_numeric raises and the except clause passes.
Converted(columns, j) ==
    /\ ColName(columns[j]) \notin IdentityColumns
    /\ \A k \in DOMAIN columns : ColName(columns[k]) = ColName(columns[j]) => k = j

\* clean_fbref_dataframe, lines 96-117.
clean_fbref_dataframe(df) ==
    IF df.is_none THEN NoFrame
    ELSE LET columns == FlatColumns(df)
             kept == KeptPositions(columns, df.rows)
         IN  Frame(columns, FALSE,
                   [ i \in DOMAIN kept |-> df.index[kept[i]] ],
                   [ i \in DOMAIN kept |->
                       [ j \in DOMAIN columns |->
                           IF Converted(columns, j)
                           THEN ToNumeric(df.rows[kept[i]][j])
                           ELSE df.rows[kept[i]][j] ] ])

\* The deepest-level label of a column: columns.get_level_values(-1).
Leaf(col) == col[Len(col)]

\* The column layouts of the tables handed to the normalizer: flat names;
\* two header rows as read_html labels them, with a placeholder over the
\* columns that have no group; two header rows with an empty upper label;
\* flat names with an identity column first; two header rows in which two
\* groups hold a column of the same name.
FlatLayout == << << "Rk" >>, << "Player" >>, << "Gls" >> >>
HierLayout ==
    << << "Unnamed: 0_level_0", "Rk" >>, << "Unnamed: 1_level_0", "Player" >>,
       << "Performance", "Gls" >> >>
HierBlankLayout == << << "", "Rk" >>, << "", "Player" >>, << "Performance", "Gls" >> >>
PlayerFirstLayout == << << "Player" >>, << "Squad" >>, << "Gls" >> >>
HierRepeatLayout == << << "Performance", "Gls" >>, << "Per 90 Minutes", "Gls" >> >>

Layouts ==
    { [ columns |-> FlatLayout, multi |-> FALSE ],
      [ columns |-> HierLayout, multi |-> TRUE ],
      [ columns |-> HierBlankLayout, multi |-> TRUE ],
      [ columns |-> PlayerFirstLayout, multi |-> FALSE ],
      [ columns |-> HierRepeatLayout, multi |-> TRUE ] }

\* The cells a column holds: the text of its header cell, where the page
\* repeats the header row inside the body, or a data value.
DataCells(leaf) ==
    CASE leaf = "Rk" -> { Str("1") }
      [] leaf = "Player" -> { Str("Smith") }
      [] leaf = "Squad" -> { Str("Arsenal") }
      [] OTHER -> { Str("5"), NaN }

CellsFor(leaf) == { Str(leaf) } \cup DataCells(leaf)

RowsFor(columns) ==
    { r \in [ DOMAIN columns -> UNION { CellsFor(Leaf(columns[j])) : j \in DOMAIN columns } ] :
        \A j \in DOMAIN columns : r[j] \in CellsFor(Leaf(columns[j])) }

\* read_html numbers the rows from 0.
RangeIndex(n) == [ i \in 1..n |-> i - 1 ]

InputFrames ==
    { NoFrame }
    \cup UNION { { Frame(l.columns, l.multi, RangeIndex(Len(rows)), rows) :
                     rows \in SeqsUpTo(RowsFor(l.columns), MaxRows) } : l \in Layouts }

NzIdle ==
    /\ nz_pc = "idle"
    /\ nz_df = NoFrame
    /\ nz_ret = NoFrame

NzInit ==
    /\ nz_pc = "start"
    /\ nz_df \in InputFrames
    /\ nz_ret = NoFrame

\* One call of clean_fbref_dataframe on the input.
CleanCall ==
    /\ nz_pc = "start"
    /\ nz_pc' = "done"
    /\ nz_ret' = clean_fbref_dataframe(nz_df)
    /\ UNCHANGED nz_df
    /\ UNCHANGED notNz

NzNext == CleanCall

(***************************************************************************)
(* Claims about clean_fbref_dataframe.                                     *)
(***************************************************************************)

\* A row that repeats the header row: each cell is the text of its
\* column's header cell.
IsHeaderCopy(df, i) ==
    \A j \in DOMAIN df.columns : df.rows[i][j] = Str(Leaf(df.columns[j]))

\* The positions of the rows that do not repeat the header row.
NonHeaderPositions(df) ==
    LET RECURSIVE Keep(_)
        Keep(i) ==
            IF i > Len(df.rows) THEN << >>
            ELSE (IF IsHeaderCopy(df, i) THEN << >> ELSE << i >>) \o Keep(i + 1)
    IN  Keep(1)

\* C9: for a table whose first data row repeats the header row, the
\* normalizer removes that row and no row that does not repeat the header
\* row: the rows of the result are the input rows that are not copies of
\* the header row, in their original order.
C9_DropsExactlyHeaderCopies ==
    (nz_pc = "done" /\ ~nz_df.is_none /\ nz_df.rows # << >> /\ IsHeaderCopy(nz_df, 1)) =>
        LET keep == NonHeaderPositions(nz_df)
        IN  nz_ret.index = [ i \in DOMAIN keep |-> nz_df.index[keep[i]] ]

\* The columns that hold identity fields: player name, squad, nation,
\* position, competition, birth year.
IsIdentityField(col) == Leaf(col) \in IdentityColumns

\* C10: the identity fields of every record the normalizer keeps hold the
\* same values after normalization as before, also when the field names
\* were hierarchical and have been flattened.
C10_IdentityFieldsUnchanged ==
    (nz_pc = "done" /\ ~nz_df.is_none) =>
        \A i \in DOMAIN nz_ret.rows :
            \E p \in DOMAIN nz_df.rows :
                /\ nz_df.index[p] = nz_ret.index[i]
                /\ \A j \in DOMAIN nz_df.columns :
                      IsIdentityField(nz_df.columns[j]) => nz_ret.rows[i][j] = nz_df.rows[p][j]

\* A cell that pd.to_numeric cannot convert: a string that is not a number.
Unconvertible(cell) == cell.kind = "str" /\ ~IsDigits(cell.s)

\* C11: in every record the normalizer keeps, a value of a non-identity
\* field that cannot be converted to a number is still the original string
\* in the result, not NaN.
C11_UnconvertibleKeptAsString ==
    (nz_pc = "done" /\ ~nz_df.is_none) =>
        \A i \in DOMAIN nz_ret.rows :
            \E p \in DOMAIN nz_df.rows :
                /\ nz_df.index[p] = nz_ret.index[i]
                /\ \A j \in DOMAIN nz_df.columns :
                      (~IsIdentityField(nz_df.columns[j]) /\ Unconvertible(nz_df.rows[p][j]))
                      => nz_ret.rows[i][j] = nz_df.rows[p][j]

\* C21: normalizing is idempotent: normalizing the result of
\* clean_fbref_dataframe again gives the same field names, the same records
\* in the same order and the same values; names that are already flat are
\* left as they are.
C21_Idempotent ==
    nz_pc = "done" => clean_fbref_dataframe(nz_ret) = nz_ret

\* A table with two header rows whose first body row repeats the header:
\* the first pass flattens the names, drops the copy and converts the
\* numbers, and a second pass changes nothing.
C21_Witness ==
    /\ nz_pc = "done"
    /\ nz_df = Frame(HierBlankLayout, TRUE, << 0, 1 >>,
                     << << Str("Rk"), Str("Player"), Str("Gls") >>,
                        << Str("1"), Str("Smith"), Str("5") >> >>)
    /\ nz_ret = Frame(<< << "Rk" >>, << "Player" >>, << "Performance_Gls" >> >>,
                      FALSE, << 1 >>,
                      << << Num(1), Str("Smith"), Num(5) >> >>)
    /\ clean_fbref_dataframe(nz_ret) = nz_ret

(***************************************************************************)
(* scrape_fbref.py: scrape_fbref_table and scrape_team_stats.              *)
(***************************************************************************)

\* Most blocks (tables, comments) in a fetched document.
MaxBlocks == 2

\* line 266: the number of Premier League teams.
PremierLeagueTeams == 20

\* The tables a page can carry: a player table with two header rows, a
\* small table without identity columns, the squad table, and a league
\* table without identity columns.
PlayerTable ==
    Frame(HierLayout, TRUE, RangeIndex(2),
          << << Num(1), Str("Smith"), Num(5) >>, << Num(2), Str("Jones"), Num(7) >> >>)

DecoyTable ==
    Frame(<< << "Club" >>, << "W" >> >>, FALSE, RangeIndex(3),
          [ i \in 1..3 |-> << Str("Arsenal"), Num(i) >> ])

SquadTable ==
    Frame(<< << "Squad" >>, << "W" >> >>, FALSE, RangeIndex(PremierLeagueTeams),
          [ i \in 1..PremierLeagueTeams |-> << Str("Arsenal"), Num(i) >> ])

LeagueTable ==
    Frame(<< << "Club" >>, << "Pts" >> >>, FALSE, RangeIndex(PremierLeagueTeams),
          [ i \in 1..PremierLeagueTeams |-> << Str("Arsenal"), Num(i) >> ])

TableCatalog == << PlayerTable, DecoyTable, SquadTable, LeagueTable >>

\* The document as a sequence of tokens: the comment delimiters, a
\* whitespace character, the opening tag and the closing tag of a table,
\* the rows between them (those of table id of the catalog), and text that
\* holds none of the others.
Tok(kind, id) == [ kind |-> kind, id |-> id ]
OpenComment == Tok("<!--", 0)
CloseComment == Tok("-->", 0)
Space == Tok(" ", 0)
TableOpen == Tok("<table>", 0)
TableClose == Tok("</table>", 0)
TableBody(k) == Tok("rows", k)
Text == Tok("text", 0)

Spaces(b) == IF b THEN << Space >> ELSE << >>

VisibleTable(k) == << TableOpen, TableBody(k), TableClose >>

\* A table inside a comment, with or without whitespace after "<!--" and
\* before "-->".
CommentedTable(k, lead, trail) ==
    << OpenComment >> \o Spaces(lead) \o VisibleTable(k) \o Spaces(trail) \o << CloseComment >>

TextComment == << OpenComment, Text, CloseComment >>

Blocks ==
    { VisibleTable(k) : k \in DOMAIN TableCatalog }
    \cup { CommentedTable(k, lead, trail) :
             k \in DOMAIN TableCatalog, lead \in BOOLEAN, trail \in BOOLEAN }
    \cup { TextComment }

RECURSIVE Concat(_)
Concat(seqs) == IF seqs = << >> THEN << >> ELSE Head(seqs) \o Concat(Tail(seqs))

Documents == { Concat(bs) : bs \in SeqsUpTo(Blocks, MaxBlocks) }

\* The response of scraper.get: the outcome of the fetch and, when it
\* succeeded, the text.
Page(fetch, html) == [ fetch |-> fetch, html |-> html ]

LocatorPages ==
    { Page("ok", d) : d \in Documents }
    \cup { Page(f, << >>) : f \in FetchFailures }

MinOf(S) == CHOOSE x \in S : \A y \in S : x <= y

\* \s* from position p: the first position at or after p that holds no
\* whitespace.
RECURSIVE SkipSpaces(_, _)
SkipSpaces(html, p) ==
    IF p <= Len(html) /\ html[p] = Space THEN SkipSpaces(html, p + 1) ELSE p

NoMatch == [ found |-> FALSE, first |-> 0, last |-> 0, stop |-> 0 ]

\* line 61: the regular expression <!--\s*(<table[^>]*>.*?</table>)\s*-->
\* (DOTALL) tried at position p. The group runs from the opening tag to
\* the first closing tag that is followed by whitespace and "-->".
MatchAt(html, p) ==
    IF html[p] # OpenComment THEN NoMatch
    ELSE LET q == SkipSpaces(html, p + 1)
         IN  IF q > Len(html) \/ html[q] # TableOpen THEN NoMatch
             ELSE LET ends == { e \in (q + 1)..Len(html) :
                                  /\ html[e] = TableClose
                                  /\ SkipSpaces(html, e + 1) <= Len(html)
                                  /\ html[SkipSpaces(html, e + 1)] = CloseComment }
                  IN  IF ends = { } THEN NoMatch
                      ELSE [ found |-> TRUE, first |-> q, last |-> MinOf(ends),
                             stop |-> SkipSpaces(html, MinOf(ends) + 1) ]

\* re.findall: the groups of the matches, left to right, not overlapping.
RECURSIVE FindAll(_, _)
FindAll(html, p) ==
    IF p > Len(html) THEN << >>
    ELSE LET m == MatchAt(html, p)
         IN  IF m.found
             THEN << SubSeq(html, m.first, m.last) >> \o FindAll(html, m.stop + 1)
             ELSE FindAll(html, p + 1)

\* str.replace(old, new): every occurrence, left to right.
RECURSIVE Replace(_, _, _)
Replace(s, old, new) ==
    IF Len(s) < Len(old) THEN s
    ELSE IF SubSeq(s, 1, Len(old)) = old
         THEN new \o Replace(SubSeq(s, Len(old) + 1, Len(s)), old, new)
         ELSE << Head(s) >> \o Replace(Tail(s), old, new)

\* lines 64-65: for each group, "<!--" + group + "-->" is replaced by the
\* group.
RECURSIVE Uncomment(_, _)
Uncomment(html, commented_tables) ==
    IF commented_tables = << >> THEN html
    ELSE Uncomment(Replace(html,
                           << OpenComment >> \o Head(commented_tables) \o << CloseComment >>,
                           Head(commented_tables)),
                   Tail(commented_tables))

\* lines 61-65
RevealTables(html) == Uncomment(html, FindAll(html, 1))

\* pd.read_html: the tables of the document outside comments, in document
\* order. A comment runs from "<!--" to the next "-->".
RECURSIVE ParseTables(_, _)
ParseTables(html, p) ==
    IF p > Len(html) THEN << >>
    ELSE IF html[p] = OpenComment
    THEN LET closes == { c \in (p + 1)..Len(html) : html[c] = CloseComment }
         IN  IF closes = { } THEN << >> ELSE ParseTables(html, MinOf(closes) + 1)
    ELSE IF /\ html[p] = TableOpen
            /\ p + 2 <= Len(html)
            /\ html[p + 1].kind = "rows"
            /\ html[p + 2] = TableClose
    THEN << TableCatalog[html[p + 1].id] >> \o ParseTables(html, p + 3)
    ELSE ParseTables(html, p + 1)

ReadHtml(html) == ParseTables(html, 1)

UpperCase == "ABCDEFGHIJKLMNOPQRSTUVWXYZ"
LowerCase == "abcdefghijklmnopqrstuvwxyz"

LowerOf(c) ==
    IF \E i \in 1..Len(UpperCase) : CharAt(UpperCase, i) = c
    THEN CharAt(LowerCase, CHOOSE i \in 1..Len(UpperCase) : CharAt(UpperCase, i) = c)
    ELSE c

\* str.lower() of a string
RECURSIVE StrLower(_)
StrLower(s) ==
    IF s = "" THEN "" ELSE LowerOf(CharAt(s, 1)) \o StrLower(SubSeq(s, 2, Len(s)))

\* sub in s
Contains(sub, s) ==
    \E i \in 1..(Len(s) - Len(sub) + 1) : SubSeq(s, i, i + Len(sub) - 1) = sub

\* line 79
IdentityNames == { "player", "squad", "nation", "pos", "age" }

\* lines 78-79
LooksLikePlayerTable(df) ==
    \E j \in DOMAIN df.columns : StrLower(Leaf(df.columns[j])) \in IdentityNames

\* The first of the tables with the most rows: what the stable sort by
\* length, largest first, puts in front (line 84), and what max(key=len)
\* returns (line 88).
FirstLargest(tables) ==
    tables[MinOf({ i \in DOMAIN tables :
                     \A k \in DOMAIN tables : Len(tables[k].rows) <= Len(tables[i].rows) })]

\* lines 75-89
SelectTable_LargestOverall(tables) == FirstLargest(tables)
SelectTable(tables) ==
    LET player_tables == SelectSeq(tables, LooksLikePlayerTable)
    IN  IF player_tables # << >> THEN FirstLargest(player_tables) ELSE FirstLargest(tables)

\* The result of scrape_fbref_table for a response, lines 51-93. A failed
\* fetch raises, and so does read_html when it finds no table; the except
\* clause returns None.
LocateTable(page) ==
    IF page.fetch # "ok" THEN NoFrame
    ELSE LET tables == ReadHtml(RevealTables(page.html))
         IN  IF tables = << >> THEN NoFrame ELSE SelectTable(tables)

\* lines 265-268: the first table of 10 to 25 rows with a column whose
\* deepest label contains "squad".
IsSquadTable(df) ==
    /\ Len(df.rows) >= 10
    /\ Len(df.rows) <= 25
    /\ \E j \in DOMAIN df.columns : Contains("squad", StrLower(Leaf(df.columns[j])))

\* lines 276-277
IsLeagueSized(df) == Len(df.rows) >= 15 /\ Len(df.rows) <= 25

\* The result of scrape_team_stats for a response, lines 250-287.
TeamTable(page) ==
    IF page.fetch # "ok" THEN NoFrame
    ELSE LET tables == ReadHtml(RevealTables(page.html))
             squads == SelectSeq(tables, IsSquadTable)
             sized == SelectSeq(tables, IsLeagueSized)
         IN  IF squads # << >> THEN clean_fbref_dataframe(squads[1])
             ELSE IF sized # << >> THEN clean_fbref_dataframe(sized[1])
             ELSE NoFrame

LcIdle ==
    /\ lc_pc = "idle"
    /\ lc_page = Page("network_error", << >>)
    /\ lc_ret = NoFrame
    /\ lc_file = NoFrame

LcInit ==
    /\ lc_pc = "start"
    /\ lc_page \in LocatorPages
    /\ lc_ret = NoFrame
    /\ lc_file = NoFrame

\* scrape_fbref_table, lines 46-93.
scrape_fbref_table ==
    /\ lc_pc = "start"
    /\ lc_pc' = "table_done"
    /\ lc_ret' = LocateTable(lc_page)
    /\ UNCHANGED << lc_page, lc_file >>
    /\ UNCHANGED notLc

\* scrape_team_stats, lines 243-287: the table found is normalized, written
\* to fbref_team_stats.csv and returned.
scrape_team_stats ==
    /\ lc_pc = "start"
    /\ lc_pc' = "team_done"
    /\ lc_ret' = TeamTable(lc_page)
    /\ lc_file' = TeamTable(lc_page)
    /\ UNCHANGED lc_page
    /\ UNCHANGED notLc

LcNext ==
    \/ scrape_fbref_table
    \/ scrape_team_stats

(***************************************************************************)
(* Claims about the table locator.                                         *)
(***************************************************************************)

\* The document holds table k inside a comment and table d outside, in
\* either order, and nothing else.
OneCommentedOneVisible(html, k, d) ==
    \E lead \in BOOLEAN, trail \in BOOLEAN :
        \/ html = CommentedTable(k, lead, trail) \o VisibleTable(d)
        \/ html = VisibleTable(d) \o CommentedTable(k, lead, trail)

\* C8: for a document with one comment-wrapped table that has an identity
\* column and one visible table that has none, with or without whitespace
\* between the comment delimiters and the table, scrape_fbref_table
\* returns the comment-wrapped table.
C8_CommentedTableRevealed ==
    (lc_pc = "table_done" /\ lc_page.fetch = "ok") =>
        \A k \in DOMAIN TableCatalog, d \in DOMAIN TableCatalog :
            ( /\ LooksLikePlayerTable(TableCatalog[k])
              /\ ~LooksLikePlayerTable(TableCatalog[d])
              /\ OneCommentedOneVisible(lc_page.html, k, d) )
            => lc_ret = TableCatalog[k]

\* The tables read_html parses from the fetched document.
ParsedTables == ReadHtml(RevealTables(lc_page.html))

\* df is one of these tables and none of them has more records.
LargestAmong(df, tables) ==
    /\ \E i \in DOMAIN tables : tables[i] = df
    /\ \A i \in DOMAIN tables : Len(tables[i].rows) <= Len(df.rows)

\* C20: among the parsed tables, when at least one has a deepest-level
\* column name that is, ignoring case, one of player, squad, nation, pos,
\* age, scrape_fbref_table returns such a table with the most records
\* among those, even when another table has more records; when none has,
\* it returns a table with the most records of all; when no table is
\* parsed it returns None.
C20_LocatorSelection ==
    (lc_pc = "table_done" /\ lc_page.fetch = "ok") =>
        LET candidates == SelectSeq(ParsedTables, LooksLikePlayerTable)
        IN  IF candidates # << >> THEN LargestAmong(lc_ret, candidates)
            ELSE IF ParsedTables # << >> THEN LargestAmong(lc_ret, ParsedTables)
            ELSE lc_ret = NoFrame

\* C20 witness: a league table of 20 records without identity columns next
\* to a player table of 2 records; the player table is returned.
C20_Witness ==
    /\ lc_pc = "table_done"
    /\ lc_page = Page("ok", VisibleTable(4) \o VisibleTable(1))
    /\ lc_ret = PlayerTable

(***************************************************************************)
(* scrape_understat.py: extract_json_data and scrape_league_players.       *)
(***************************************************************************)

\* A JSON value as far as the stage looks at it: a list of records, a
\* mapping, or None.
JsonList(items) == [ type |-> "list", items |-> items ]
JsonDict(items) == [ type |-> "dict", items |-> items ]
JsonNone == [ type |-> "none", items |-> << >> ]

\* bool(value): None, [] and {} are false.
Truthy(v) == v.type # "none" /\ v.items # << >>

\* A record of playersData; Understat sends every value as text. The
\* fields that are only printed (team_title, games, goals, assists) are
\* present in every record and left out.
PlayerEntry(name, time, xG, xA) ==
    [ player_name |-> name, time |-> time, xG |-> xG, xA |-> xA ]

\* The values are chosen so that the double arithmetic of (xG / minutes) * 90
\* is exact: 9 and 45 over 90 and 810 minutes give 9, 1, 45 and 5.
PlayerEntries ==
    { PlayerEntry("Smith", t, x, a) :
        t \in { "0", "90", "810", "n/a" }, x \in { "0", "9", "45" }, a \in { "0", "9" } }

\* What follows "var playersData = JSON.parse('" in the document: a
\* well-formed payload (a list of records, an empty list, an empty mapping),
\* a payload with a malformed escape sequence, or a payload that is not
\* JSON after decoding.
Payload(kind, value) == [ kind |-> kind, value |-> value ]

PlayerPayloads ==
    { Payload("json", JsonList(ps)) : ps \in SeqsUpTo(PlayerEntries, MaxRows) }
    \cup { Payload("json", JsonDict(<< >>)),
           Payload("bad_escape", JsonNone),
           Payload("bad_json", JsonNone) }

\* The league page: the outcome of the fetch, whether the document holds
\* the assignment to playersData, and its payload.
LeaguePage(fetch, assignment, payload) ==
    [ fetch |-> fetch, assignment |-> assignment, payload |-> payload ]

LeaguePages ==
    { LeaguePage("ok", TRUE, p) : p \in PlayerPayloads }
    \cup { LeaguePage("ok", FALSE, Payload("json", JsonNone)) }
    \cup { LeaguePage(f, FALSE, Payload("json", JsonNone)) : f \in FetchFailures }

\* extract_json_data, lines 33-45: None when the pattern does not match;
\* otherwise the decoded and parsed payload, or the exception that
\* decode('unicode_escape') or json.loads raises.
extract_json_data(page) ==
    IF ~page.assignment THEN [ raised |-> FALSE, value |-> JsonNone ]
    ELSE IF page.payload.kind = "json" THEN [ raised |-> FALSE, value |-> page.payload.value ]
    ELSE [ raised |-> TRUE, value |-> JsonNone ]

\* A float: a finite value n/d in lowest terms, inf, or NaN.
Finite(n, d) == [ kind |-> "num", n |-> n, d |-> d ]
Inf == [ kind |-> "inf", n |-> 0, d |-> 1 ]
NotANumber == [ kind |-> "nan", n |-> 0, d |-> 1 ]

RECURSIVE Gcd(_, _)
Gcd(a, b) == IF b = 0 THEN a ELSE Gcd(b, a % b)

Reduce(n, d) == Finite(n \div Gcd(n, d), d \div Gcd(n, d))

\* A cell after pd.to_numeric, as a float.
AsFloat(cell) == IF cell.kind = "num" THEN Finite(cell.n, 1) ELSE NotANumber

\* Series / Series: a zero divisor gives inf, 0 / 0 gives NaN; nothing is
\* raised.
FloatDiv(x, y) ==
    CASE x.kind = "nan" \/ y.kind = "nan" -> NotANumber
      [] x.kind = "inf" /\ y.kind = "inf" -> NotANumber
      [] x.kind = "inf" -> Inf
      [] y.kind = "inf" -> Finite(0, 1)
      [] y.n = 0 /\ x.n = 0 -> NotANumber
      [] y.n = 0 -> Inf
      [] OTHER -> Reduce(x.n * y.d, x.d * y.n)

FloatMul(x, y) ==
    CASE x.kind = "nan" \/ y.kind = "nan" -> NotANumber
      [] x.kind = "inf" -> IF y.kind = "num" /\ y.n = 0 THEN NotANumber ELSE Inf
      [] y.kind = "inf" -> IF x.n = 0 THEN NotANumber ELSE Inf
      [] OTHER -> Reduce(x.n * y.n, x.d * y.d)

FloatAdd(x, y) ==
    CASE x.kind = "nan" \/ y.kind = "nan" -> NotANumber
      [] x.kind = "inf" \/ y.kind = "inf" -> Inf
      [] OTHER -> Reduce(x.n * y.d + y.n * x.d, x.d * y.d)

\* lines 77-78: (total / minutes) * 90
Per90_PerMinute(total, minutes) == FloatDiv(total, minutes)
Per90(total, minutes) == FloatMul(FloatDiv(total, minutes), Finite(90, 1))

\* lines 71-79: one row of the player table.
PlayerRow(p) ==
    LET time == AsFloat(ToNumeric(Str(p.time)))
        xG == AsFloat(ToNumeric(Str(p.xG)))
        xA == AsFloat(ToNumeric(Str(p.xA)))
    IN  [ player_name |-> p.player_name, time |-> time, xG |-> xG, xA |-> xA,
          minutes |-> time,
          xG_per90 |-> Per90(xG, time),
          xA_per90 |-> Per90(xA, time),
          xGI_per90 |-> FloatAdd(Per90(xG, time), Per90(xA, time)) ]

\* The outcome of scrape_league_players for a page, lines 54-100: what is
\* returned, what is written to understat_players.csv, and which message
\* is printed.
LeaguePlayersResult(page) ==
    LET data == extract_json_data(page)
        rows == [ i \in DOMAIN data.value.items |-> PlayerRow(data.value.items[i]) ]
    IN  IF page.fetch # "ok" \/ data.raised
        THEN [ ret |-> NoneDf, file |-> NoFile, msg |-> "error" ]
        ELSE IF Truthy(data.value)
        THEN [ ret |-> Df(rows), file |-> File(rows), msg |-> "saved" ]
        ELSE [ ret |-> NoneDf, file |-> NoFile, msg |-> "not_found" ]

PlIdle ==
    /\ pl_pc = "idle"
    /\ pl_page = LeaguePage("network_error", FALSE, Payload("json", JsonNone))
    /\ pl_ret = NoneDf
    /\ pl_file = NoFile
    /\ pl_msg = ""

PlInit ==
    /\ pl_pc = "start"
    /\ pl_page \in LeaguePages
    /\ pl_ret = NoneDf
    /\ pl_file = NoFile
    /\ pl_msg = ""

\* scrape_league_players, lines 48-100.
scrape_league_players ==
    /\ pl_pc = "start"
    /\ pl_pc' = "done"
    /\ pl_ret' = LeaguePlayersResult(pl_page).ret
    /\ pl_file' = LeaguePlayersResult(pl_page).file
    /\ pl_msg' = LeaguePlayersResult(pl_page).msg
    /\ UNCHANGED pl_page
    /\ UNCHANGED notPl

PlNext == scrape_league_players

(***************************************************************************)
(* Claims about scrape_league_players.                                     *)
(***************************************************************************)

\* The page was fetched and holds a non-empty list of players.
HasPlayers(page) ==
    /\ page.fetch = "ok"
    /\ page.assignment
    /\ page.payload.kind = "json"
    /\ page.payload.value.type = "list"
    /\ page.payload.value.items # << >>

\* rate = (total / minutes) * 90, for a positive number of minutes.
IsPer90(rate, total, minutes) ==
    /\ rate.kind = "num"
    /\ rate.n * minutes = total * 90 * rate.d

\* C12: the stage writes one row per player; for a player with
\* minutes > 0, xG_per90 = (xG / minutes) * 90 and xA_per90 =
\* (xA / minutes) * 90, whatever the minutes of the other players; for a
\* player with minutes = 0 the rates are inf or NaN, and the stage still
\* saves its file and raises nothing.
C12_Per90Rates ==
    (pl_pc = "done" /\ HasPlayers(pl_page)) =>
        LET players == pl_page.payload.value.items
        IN  /\ pl_msg = "saved"
            /\ pl_file.written
            /\ pl_ret = Df(pl_file.rows)
            /\ Len(pl_file.rows) = Len(players)
            /\ \A i \in DOMAIN players :
                  LET p == players[i]
                      r == pl_file.rows[i]
                  IN  /\ r.player_name = p.player_name
                      /\ (IsDigits(p.time) /\ ParseNat(p.time) > 0) =>
                            /\ IsPer90(r.xG_per90, ParseNat(p.xG), ParseNat(p.time))
                            /\ IsPer90(r.xA_per90, ParseNat(p.xA), ParseNat(p.time))
                      /\ (IsDigits(p.time) /\ ParseNat(p.time) = 0) =>
                            /\ r.xG_per90.kind \in { "inf", "nan" }
                            /\ r.xA_per90.kind \in { "inf", "nan" }

\* C12 witness: 9 over 810 minutes gives 1.0 next to a player with no
\* minutes, whose rate is inf.
C12_Witness ==
    /\ pl_pc = "done"
    /\ pl_page.payload.value.items =
          << PlayerEntry("Smith", "810", "9", "0"), PlayerEntry("Smith", "0", "9", "0") >>
    /\ pl_file.written
    /\ pl_file.rows[1].xG_per90 = Finite(1, 1)
    /\ pl_file.rows[2].xG_per90 = Inf
    /\ pl_file.rows[2].xA_per90 = NotANumber

\* C14: after a successful fetch the stage reports 'not found' exactly
\* when the assignment is absent from the document, and reports an error
\* when the payload has a malformed escape or is not JSON; a well-formed
\* payload, also an empty list or mapping, is not reported as 'not found'.
C14_NotFoundIffAbsent ==
    (pl_pc = "done" /\ pl_page.fetch = "ok") =>
        /\ pl_msg = "not_found" <=> ~pl_page.assignment
        /\ (pl_page.assignment /\ pl_page.payload.kind # "json") => pl_msg = "error"

(***************************************************************************)
(* scrape_fpl.py: the fetch functions.                                     *)
(***************************************************************************)

\* An environment variable: unset, or set to a value (possibly empty).
Unset == [ set |-> FALSE, value |-> "" ]
SetTo(v) == [ set |-> TRUE, value |-> v ]

\* os.getenv(name, default)
GetEnv(env, name, default) == IF env[name].set THEN env[name].value ELSE default

\* line 14: the default of API_FOOTBALL_KEY, a key written into the source
\* (its value is not repeated here).
DefaultApiFootballKey == "key-in-source"

Environments ==
    { [ FOOTBALL_DATA_API_KEY |-> a, API_FOOTBALL_KEY |-> b ] :
        a \in { Unset, SetTo(""), SetTo("fd-key") }, b \in { Unset, SetTo("af-key") } }

\* A field of a source record: absent, or present with a value.
Missing == [ present |-> FALSE, v |-> "" ]
Given(v) == [ present |-> TRUE, v |-> v ]

\* A field of an output record: None, or a value.
Null == [ null |-> TRUE, v |-> "" ]
Val(v) == [ null |-> FALSE, v |-> v ]

\* dict.get(key): None when the key is absent.
Get(field) == IF field.present THEN Val(field.v) ELSE Null

\* dict.get(key, default)
GetOr(field, default) == IF field.present THEN Val(field.v) ELSE Val(default)

\* One entry of the payload (a scorer, a top scorer, a squad player, an
\* element) as far as the extractors read it: the player's name, the team,
\* the goals and the assists, each present or absent.
SourceItems ==
    { [ name |-> n, team |-> t, goals |-> g, assists |-> a ] :
        n \in { Missing, Given("Salah") }, t \in { Missing, Given("Liverpool") },
        g \in { Missing, Given("5") }, a \in { Missing, Given("3") } }

\* A response body: not JSON at all, or a JSON object with or without a
\* non-empty "errors" entry and with a list of entries.
Body(json, errors, items) == [ json |-> json, errors |-> errors, items |-> items ]

Bodies ==
    { Body(FALSE, FALSE, << >>) }
    \cup { Body(TRUE, e, items) : e \in BOOLEAN, items \in SeqsUpTo(SourceItems, 1) }

\* What requests.get gives: a network exception, or a response with a 2xx
\* status or another status, and its body.
Response(outcome, body) == [ outcome |-> outcome, body |-> body ]

Responses ==
    { Response("network_error", Body(FALSE, FALSE, << >>)) }
    \cup { Response(o, b) : o \in { "ok", "http_error" }, b \in Bodies }

\* The result of a fetch function: what it returns, the requests it issued
\* (the key each carried) and the messages it printed.
FetchResult(ret, requests, printed) ==
    [ ret |-> ret, requests |-> requests, printed |-> printed ]

MapItems(items, Op(_)) == [ i \in DOMAIN items |-> Op(items[i]) ]

\* lines 45-53
ScorerRecord(s) ==
    [ name |-> Get(s.name), team |-> Get(s.team),
      goals |-> GetOr(s.goals, "0"), assists |-> GetOr(s.assists, "0") ]

\* fetch_from_football_data_api, lines 22-61.
FootballDataResult(env, response) ==
    LET key == GetEnv(env, "FOOTBALL_DATA_API_KEY", "")
    IN  IF key = "" THEN FetchResult(NoneDf, << >>, << "no_key" >>)
        ELSE IF response.outcome # "ok" \/ ~response.body.json
        THEN FetchResult(NoneDf, << key >>, << "error" >>)
        ELSE FetchResult(Df(MapItems(response.body.items, ScorerRecord)),
                         << key >>, << "fetched" >>)

\* lines 95-116
TopScorerRecord(item) ==
    [ name |-> Get(item.name), team |-> Get(item.team),
      goals |-> GetOr(item.goals, "0"), assists |-> GetOr(item.assists, "0") ]

\* fetch_from_api_football, lines 64-124: the key is the module constant of
\* line 14; the status of the response is not looked at.
ApiFootballResult(env, response) ==
    LET key == GetEnv(env, "API_FOOTBALL_KEY", DefaultApiFootballKey)
    IN  IF response.outcome = "network_error" \/ ~response.body.json
        THEN FetchResult(NoneDf, << key >>, << "fetching", "error" >>)
        ELSE IF response.body.errors
        THEN FetchResult(NoneDf, << key >>, << "fetching", "api_error" >>)
        ELSE FetchResult(Df(MapItems(response.body.items, TopScorerRecord)),
                         << key >>, << "fetching", "fetched" >>)

\* lines 143-149
SquadRecord(player) == [ name |-> Get(player.name), team |-> Val("Liverpool") ]

\* fetch_squad_from_api_football, lines 127-154: the result is a list, empty
\* on failure; the status of the response is not looked at.
SquadResult(env, response) ==
    LET key == GetEnv(env, "API_FOOTBALL_KEY", DefaultApiFootballKey)
    IN  IF response.outcome = "network_error" \/ ~response.body.json
        THEN FetchResult(Df(<< >>), << key >>, << "error" >>)
        ELSE FetchResult(Df(MapItems(response.body.items, SquadRecord)), << key >>, << >>)

\* lines 211-245: the team name is looked up by the element's team id and
\* is "Unknown" when there is none.
ElementRecord(p) ==
    [ name |-> Get(p.name), team |-> GetOr(p.team, "Unknown"),
      goals |-> Get(p.goals), assists |-> Get(p.assists) ]

\* fetch_fpl_data, lines 191-254.
FplResult(response) ==
    IF response.outcome # "ok" \/ ~response.body.json
    THEN FetchResult(NoneDf, << "" >>, << "fetching", "error" >>)
    ELSE FetchResult(Df(MapItems(response.body.items, ElementRecord)),
                     << "" >>, << "fetching", "fetched" >>)

FpIdle ==
    /\ fp_pc = "idle"
    /\ fp_env = [ FOOTBALL_DATA_API_KEY |-> Unset, API_FOOTBALL_KEY |-> Unset ]
    /\ fp_response = Response("network_error", Body(FALSE, FALSE, << >>))
    /\ fp_result = FetchResult(NoneDf, << >>, << >>)

FpInit ==
    /\ fp_pc = "start"
    /\ fp_env \in Environments
    /\ fp_response \in Responses
    /\ fp_result = FetchResult(NoneDf, << >>, << >>)

fetch_from_football_data_api ==
    /\ fp_pc = "start"
    /\ fp_pc' = "football_data"
    /\ fp_result' = FootballDataResult(fp_env, fp_response)
    /\ UNCHANGED << fp_env, fp_response >>
    /\ UNCHANGED notFp

fetch_from_api_football ==
    /\ fp_pc = "start"
    /\ fp_pc' = "api_football"
    /\ fp_result' = ApiFootballResult(fp_env, fp_response)
    /\ UNCHANGED << fp_env, fp_response >>
    /\ UNCHANGED notFp

fetch_squad_from_api_football ==
    /\ fp_pc = "start"
    /\ fp_pc' = "squad"
    /\ fp_result' = SquadResult(fp_env, fp_response)
    /\ UNCHANGED << fp_env, fp_response >>
    /\ UNCHANGED notFp

fetch_fpl_data ==
    /\ fp_pc = "start"
    /\ fp_pc' = "fpl"
    /\ fp_result' = FplResult(fp_response)
    /\ UNCHANGED << fp_env, fp_response >>
    /\ UNCHANGED notFp

FpNext ==
    \/ fetch_from_football_data_api
    \/ fetch_from_api_football
    \/ fetch_squad_from_api_football
    \/ fetch_fpl_data

(***************************************************************************)
(* Claims about the fetch functions of scrape_fpl.py.                      *)
(***************************************************************************)

\* The failure result of the function that ran: None, or the empty list of
\* fetch_squad_from_api_football.
FailureResult == IF fp_pc = "squad" THEN Df(<< >>) ELSE NoneDf

\* C15: when the response has a non-2xx status or the request ends in a
\* network exception, the fetch function returns its failure result; no
\* record is made from the body.
C15_FetchFailureNotParsed ==
    (fp_pc \notin { "idle", "start" } /\ fp_response.outcome # "ok") =>
        fp_result.ret = FailureResult

\* C18: in every record an extractor produces, a field that the source
\* entry does not have is None; no value is made up for it.
C18_MissingFieldsAreNull ==
    (fp_pc \in { "football_data", "api_football", "fpl" } /\ ~fp_result.ret.is_none) =>
        \A i \in DOMAIN fp_result.ret.rows :
            \A f \in { "name", "team", "goals", "assists" } :
                ~fp_response.body.items[i][f].present => fp_result.ret.rows[i][f] = Null

\* C19: when the environment variable that holds a source's API key is
\* unset, the fetch function of that source issues no request, prints a
\* diagnostic, and returns its skip result (None).
C19_NoKeyNoRequest ==
    /\ (fp_pc = "football_data" /\ ~fp_env["FOOTBALL_DATA_API_KEY"].set) =>
          /\ fp_result.requests = << >>
          /\ fp_result.printed = << "no_key" >>
          /\ fp_result.ret = NoneDf
    /\ (fp_pc = "api_football" /\ ~fp_env["API_FOOTBALL_KEY"].set) =>
          /\ fp_result.requests = << >>
          /\ fp_result.printed = << "no_key" >>
          /\ fp_result.ret = NoneDf

(***************************************************************************)
(* scrape_understat.py: scrape_all_fixtures.                               *)
(***************************************************************************)

\* One entry of datesData as far as the stage splits on it: the match id
\* and whether the match has been played.
DateEntries == { [ id |-> i, isResult |-> r ] : i \in { 1, 2 }, r \in BOOLEAN }

\* The league page for the fixtures: the outcome of the fetch and the
\* datesData assignment (absent, a payload that does not decode or parse,
\* or a list of entries).
FixturesPage(fetch, var, dates) == [ fetch |-> fetch, var |-> var, dates |-> dates ]

FixturesPages ==
    { FixturesPage(f, "absent", << >>) : f \in FetchFailures }
    \cup { FixturesPage("ok", v, << >>) : v \in { "absent", "malformed" } }
    \cup { FixturesPage("ok", "present", ds) : ds \in SeqsUpTo(DateEntries, MaxMatches) }

\* lines 253-263: one row of the fixtures table.
FixtureRow(match) == [ id |-> match.id, is_result |-> match.isResult ]

\* lines 251-265
FixturesOf(dates) == [ i \in DOMAIN dates |-> FixtureRow(dates[i]) ]

\* lines 268-269: df[df["is_result"] == flag]
WithIsResult(rows, flag) == SelectSeq(rows, LAMBDA r : r.is_result = flag)

\* What an earlier run left in the data directory: each of the two files
\* is absent or holds that run's rows (match 0 is not in this run's page).
EarlierResults == File(<< [ id |-> 0, is_result |-> TRUE ] >>)
EarlierUpcoming == File(<< [ id |-> 0, is_result |-> FALSE ] >>)

FixtureFiles(results, upcoming) == [ results |-> results, upcoming |-> upcoming ]

\* lines 271-281: a file is written only when its part is not empty.
WriteIfAny(file, rows) == IF rows # << >> THEN File(rows) ELSE file

FxIdle ==
    /\ fx_pc = "idle"
    /\ fx_page = FixturesPage("network_error", "absent", << >>)
    /\ fx_files = FixtureFiles(NoFile, NoFile)
    /\ fx_ret = NoneDf

FxInit ==
    /\ fx_pc = "start"
    /\ fx_page \in FixturesPages
    /\ fx_files \in { FixtureFiles(r, u) :
                        r \in { NoFile, EarlierResults }, u \in { NoFile, EarlierUpcoming } }
    /\ fx_ret = NoneDf

\* scrape_all_fixtures, lines 235-288. A failed fetch and a payload that
\* does not parse raise and end in the except clause; an absent assignment
\* and an empty list fall through to return None.
scrape_all_fixtures ==
    /\ fx_pc = "start"
    /\ fx_pc' = "done"
    /\ IF fx_page.fetch = "ok" /\ fx_page.var = "present" /\ fx_page.dates # << >>
       THEN LET df == FixturesOf(fx_page.dates)
            IN  /\ fx_files' = FixtureFiles(
                                   WriteIfAny(fx_files.results, WithIsResult(df, TRUE)),
                                   WriteIfAny(fx_files.upcoming, WithIsResult(df, FALSE)))
                /\ fx_ret' = Df(df)
       ELSE /\ fx_files' = fx_files
            /\ fx_ret' = NoneDf
    /\ UNCHANGED fx_page
    /\ UNCHANGED notFx

FxNext == scrape_all_fixtures

(***************************************************************************)
(* Claims about the target files.                                          *)
(***************************************************************************)

\* The fixtures this run fetched: none when the fetch or the extraction
\* failed.
FetchedFixtures ==
    IF fx_page.fetch = "ok" /\ fx_page.var = "present"
    THEN [ i \in DOMAIN fx_page.dates |->
             [ id |-> fx_page.dates[i].id, is_result |-> fx_page.dates[i].isResult ] ]
    ELSE << >>

\* C16: when scrape_all_fixtures has finished, understat_results.csv and
\* understat_upcoming.csv, where they exist, hold exactly the played and
\* the upcoming fixtures fetched in this run; neither holds what an earlier
\* run wrote.
C16_TargetsHoldThisRun ==
    fx_pc = "done" =>
        /\ fx_files.results.written =>
              fx_files.results.rows = SelectSeq(FetchedFixtures, LAMBDA r : r.is_result)
        /\ fx_files.upcoming.written =>
              fx_files.upcoming.rows = SelectSeq(FetchedFixtures, LAMBDA r : ~r.is_result)

(***************************************************************************)
(* scrape_fbref.py: main, the four player stages and the merge.            *)
(***************************************************************************)

\* The statistic that stands for a category's columns.
StatOf(category) ==
    CASE category = "standard" -> "Gls"
      [] category = "shooting" -> "Sh"
      [] category = "defensive" -> "Tkl"
      [] OTHER -> "SCA"

\* What scrape_fbref_table returns for a category's page in this run: None,
\* or the player table of the page.
FetchedFrame(category) ==
    Frame(<< << "Player" >>, << StatOf(category) >> >>, FALSE, RangeIndex(1),
          << << Str("Smith"), Str("2") >> >>)

StageFrames(category) == { NoFrame, FetchedFrame(category) }

\* The file an earlier run left for a category.
EarlierTable(category) ==
    Table(<< "Player", StatOf(category) >>,
          << [ c \in { "Player", StatOf(category) } |-> IF c = "Player" THEN "Smith" ELSE "1" ] >>)

DigitText(d) == CharAt("0123456789", d + 1)

\* str(n) of a natural number
RECURSIVE NatText(_)
NatText(n) == IF n < 10 THEN DigitText(n) ELSE NatText(n \div 10) \o DigitText(n % 10)

\* The text of a cell in the CSV file, as read_csv gives it back.
CellText(cell) ==
    CASE cell.kind = "str" -> cell.s
      [] cell.kind = "num" -> NatText(cell.n)
      [] OTHER -> "NaN"

\* df.to_csv(filepath, index=False) followed by pd.read_csv(filepath), for
\* a frame with flat, distinct column names.
ToCsv(df) ==
    LET cols == [ j \in DOMAIN df.columns |-> ColName(df.columns[j]) ]
    IN  Table(cols,
              [ i \in DOMAIN df.rows |->
                  [ c \in Range(cols) |->
                      CellText(df.rows[i][CHOOSE j \in DOMAIN cols : cols[j] = c]) ] ])

\* scrape_standard_stats and its three siblings, lines 120-189: the table
\* is normalized and written when scrape_fbref_table found one; otherwise
\* the file is left as it is.
StageFile(file, df) == IF df.is_none THEN file ELSE ToCsv(clean_fbref_dataframe(df))

\* lines 300-309: the order of the stages.
StageAfter(category) ==
    CASE category = "standard" -> "shooting"
      [] category = "shooting" -> "defensive"
      [] category = "defensive" -> "gca"
      [] OTHER -> "team"

FbIdle ==
    /\ fb_pc = "idle"
    /\ fb_files = [ n \in Range(MergeFileOrder) |-> NoTable ]
    /\ fb_fetched = [ n \in Range(MergeFileOrder) |-> FALSE ]
    /\ fb_out = NoTable

\* main starts with the files of earlier runs in the data directory.
FbInit ==
    /\ fb_pc = "standard"
    /\ \E earlier \in SUBSET Range(MergeFileOrder) :
          fb_files = [ n \in Range(MergeFileOrder) |->
                         IF n \in earlier THEN EarlierTable(n) ELSE NoTable ]
    /\ fb_fetched = [ n \in Range(MergeFileOrder) |-> FALSE ]
    /\ fb_out = NoTable

\* One of scrape_standard_stats, scrape_shooting_stats,
\* scrape_defensive_stats, scrape_gca_stats, called by main in this order.
MainScrapeStats ==
    /\ fb_pc \in Range(MergeFileOrder)
    /\ \E df \in StageFrames(fb_pc) :
          /\ fb_files' = [ fb_files EXCEPT ![fb_pc] = StageFile(fb_files[fb_pc], df) ]
          /\ fb_fetched' = [ fb_fetched EXCEPT ![fb_pc] = ~df.is_none ]
    /\ fb_pc' = StageAfter(fb_pc)
    /\ UNCHANGED fb_out
    /\ UNCHANGED notFb

\* line 312: scrape_team_stats writes fbref_team_stats.csv, which the merge
\* does not read.
MainTeamStats ==
    /\ fb_pc = "team"
    /\ fb_pc' = "merge"
    /\ UNCHANGED << fb_files, fb_fetched, fb_out >>
    /\ UNCHANGED notFb

\* line 315: merge_all_stats on the files that exist now.
MainMerge ==
    /\ fb_pc = "merge"
    /\ fb_pc' = "done"
    /\ fb_out' = IF fb_files["standard"].exists THEN MergedTable(fb_files) ELSE fb_out
    /\ UNCHANGED << fb_files, fb_fetched >>
    /\ UNCHANGED notFb

FbNext ==
    \/ MainScrapeStats
    \/ MainTeamStats
    \/ MainMerge

(***************************************************************************)
(* Claims about scrape_fbref.py main.                                      *)
(***************************************************************************)

\* The category files as they would be with nothing but this run's tables.
FetchedFiles ==
    [ n \in Range(MergeFileOrder) |-> IF fb_fetched[n] THEN fb_files[n] ELSE NoTable ]

\* C17: when main has finished, fbref_all_stats.csv holds the merge of the
\* categories fetched in this run and nothing else: it is not written from
\* a standard file of an earlier run, and no column or row of a category
\* whose fetch failed comes from that category's earlier file.
C17_MergedFromThisRunOnly ==
    fb_pc = "done" =>
        IF fb_fetched["standard"]
        THEN fb_out = MergedTable(FetchedFiles)
        ELSE ~fb_out.exists

(***************************************************************************)
(* The field names of an extracted table: scrape_player_stats.py           *)
(* scrape_fbref_player_stats (the header list) and scrape_fbref.py         *)
(* clean_fbref_dataframe (the flattened labels).                           *)
(***************************************************************************)

MaxColumns == 3

\* The labels of one column of a table with two header rows: the group
\* label of the upper row (empty when the column has no group) and the
\* label of the lower row.
GroupLabels == { "", "Performance", "Expected" }
LeafLabels == { "Gls", "xG" }
ColumnLabels == { << g, l >> : g \in GroupLabels, l \in LeafLabels }

HeaderLayouts == SeqsUpTo(ColumnLabels, MaxColumns) \ { << >> }

\* The upper header row: one th per run of columns of the same group.
RECURSIVE GroupRow(_)
GroupRow(layout) ==
    IF layout = << >> THEN << >>
    ELSE IF Len(layout) > 1 /\ layout[1][1] = layout[2][1] THEN GroupRow(Tail(layout))
    ELSE << layout[1][1] >> \o GroupRow(Tail(layout))

\* The lower header row: one th per column.
LeafRow(layout) == [ j \in DOMAIN layout |-> layout[j][2] ]

\* The tr elements of the thead, each the texts of its th elements.
Thead(layout) == << GroupRow(layout), LeafRow(layout) >>

\* scrape_player_stats.py lines 41-44: the stripped texts of the th
\* elements of the last tr of the thead; line 59 makes them the columns.
HeaderList(thead) ==
    LET last == thead[Len(thead)]
    IN  [ j \in DOMAIN last |-> StripChar(last[j], " ") ]

\* scrape_fbref.py lines 102-104 on the MultiIndex read_html builds from
\* the same two header rows.
FlatNames(layout) ==
    LET flat == FlatColumns(Frame(layout, TRUE, << >>, << >>))
    IN  [ j \in DOMAIN flat |-> ColName(flat[j]) ]

HdIdle ==
    /\ hd_pc = {}
    /\ hd_layout = << >>
    /\ hd_headers = << >>
    /\ hd_flat = << >>

HdInit ==
    /\ hd_pc = { "headers", "flatten" }
    /\ hd_layout \in HeaderLayouts
    /\ hd_headers = << >>
    /\ hd_flat = << >>

\* scrape_fbref_player_stats builds its header list.
ParseHeaders ==
    /\ "headers" \in hd_pc
    /\ hd_pc' = hd_pc \ { "headers" }
    /\ hd_headers' = HeaderList(Thead(hd_layout))
    /\ UNCHANGED << hd_layout, hd_flat >>
    /\ UNCHANGED notHd

\* clean_fbref_dataframe flattens the labels.
FlattenHeaders ==
    /\ "flatten" \in hd_pc
    /\ hd_pc' = hd_pc \ { "flatten" }
    /\ hd_flat' = FlatNames(hd_layout)
    /\ UNCHANGED << hd_layout, hd_headers >>
    /\ UNCHANGED notHd

HdNext == ParseHeaders \/ FlattenHeaders

(***************************************************************************)
(* Claims about the field names.                                           *)
(***************************************************************************)

\* A layout of pairwise distinct columns in which one lower label occurs
\* under two different group labels.
LeafUnderTwoGroups(layout) ==
    /\ NoRepeat(layout)
    /\ \E i, j \in DOMAIN layout : layout[i][2] = layout[j][2] /\ layout[i][1] # layout[j][1]

\* C22: for every header layout in which the same lower label occurs under
\* two different group labels, the field names of the extracted table are
\* pairwise distinct: the header list of scrape_fbref_player_stats and the
\* names clean_fbref_dataframe produces by flattening.
C22_DistinctFieldNames ==
    LeafUnderTwoGroups(hd_layout) =>
        /\ "headers" \notin hd_pc => NoRepeat(hd_headers)
        /\ "flatten" \notin hd_pc => NoRepeat(hd_flat)

\* The half of C22 that is about clean_fbref_dataframe alone.
FlatNamesDistinct ==
    (LeafUnderTwoGroups(hd_layout) /\ "flatten" \notin hd_pc) => NoRepeat(hd_flat)

(***************************************************************************)
(* refresh_data.py main with scrape_understat.py as the child it runs:    *)
(* what the summary says against what the child did.                       *)
(***************************************************************************)

\* The league page as each of the three stages of scrape_understat.py
\* finds it: the fetch fails, the page has no data assignment, or the page
\* holds data.
RfPlayerPages ==
    { LeaguePage(f, FALSE, Payload("json", JsonNone)) : f \in FetchOutcomes }
    \cup { LeaguePage("ok", TRUE,
                      Payload("json", JsonList(<< PlayerEntry("Smith", "90", "9", "0") >>))) }

RfTeamPages ==
    { TeamsPage(f, "absent", << >>) : f \in FetchOutcomes }
    \cup { TeamsPage("ok", "present", TeamsDataOf(<< >>)) }

RfFixturePages ==
    { FixturesPage(f, "absent", << >>) : f \in FetchOutcomes }
    \cup { FixturesPage("ok", "present", << [ id |-> 1, isResult |-> TRUE ] >>),
           FixturesPage("ok", "present",
                        << [ id |-> 1, isResult |-> TRUE ], [ id |-> 2, isResult |-> FALSE ] >>) }

\* scrape_understat.py lines 121-171: does scrape_league_teams write its
\* file for this page.
TeamsWritten(page) == page.fetch = "ok" /\ page.var = "present" /\ page.teams # << >>

\* scrape_understat.py lines 248-281: the files scrape_all_fixtures writes
\* for this page.
FixturesWritten(page) ==
    IF page.fetch = "ok" /\ page.var = "present" /\ page.dates # << >>
    THEN LET df == FixturesOf(page.dates)
         IN  { "understat_fixtures.csv" }
             \cup (IF WithIsResult(df, TRUE) # << >> THEN { "understat_results.csv" } ELSE {})
             \cup (IF WithIsResult(df, FALSE) # << >> THEN { "understat_upcoming.csv" } ELSE {})
    ELSE {}

\* The pipelines whose child is not looked into.
OtherPipelines == { "fbref", "fpl" }

RfIdle ==
    /\ rf_pc = "idle"
    /\ rf_pages = << >>
    /\ rf_written = {}
    /\ rf_wrote = {}
    /\ rf_results = << >>
    /\ rf_printed = << >>

\* The user has confirmed; main is about to call run_scraper for fbref.
RfInit ==
    /\ rf_pc = "fbref"
    /\ rf_pages \in [ players : RfPlayerPages, teams : RfTeamPages, fixtures : RfFixturePages ]
    /\ rf_written = {}
    /\ rf_wrote = {}
    /\ rf_results = << >>
    /\ rf_printed = << >>

\* refresh_data.py lines 61 and 63: run_scraper for fbref, then later for
\* fpl, ends with outcome o; w says whether the child rewrote a file. These
\* two children are taken to do what the summary says of them: one that
\* ends with return code 0 has rewritten a file, one that never ran has
\* not, and one that failed or was killed may have.
RunOther(o, w) ==
    /\ rf_pc \in OtherPipelines
    /\ o = "exit0" => w
    /\ w => o \in ChildOutcomes
    /\ rf_results' = DictSet(rf_results, rf_pc, ReturnValue(o))
    /\ rf_wrote' = IF w THEN rf_wrote \cup { rf_pc } ELSE rf_wrote
    /\ rf_pc' = IF rf_pc = "fbref" THEN "players" ELSE "summary"
    /\ UNCHANGED << rf_pages, rf_written, rf_printed >>
    /\ UNCHANGED notRf

\* scrape_understat.py main line 301: scrape_league_players() in the child;
\* its return value is dropped.
ChildPlayers ==
    /\ rf_pc = "players"
    /\ rf_written' = IF LeaguePlayersResult(rf_pages.players).file.written
                     THEN rf_written \cup { "understat_players.csv" }
                     ELSE rf_written
    /\ rf_pc' = "teams"
    /\ UNCHANGED << rf_pages, rf_wrote, rf_results, rf_printed >>
    /\ UNCHANGED notRf

\* main line 305: scrape_league_teams()
ChildTeams ==
    /\ rf_pc = "teams"
    /\ rf_written' = IF TeamsWritten(rf_pages.teams)
                     THEN rf_written \cup { "understat_teams.csv" }
                     ELSE rf_written
    /\ rf_pc' = "fixtures"
    /\ UNCHANGED << rf_pages, rf_wrote, rf_results, rf_printed >>
    /\ UNCHANGED notRf

\* main line 309: scrape_all_fixtures()
ChildFixtures ==
    /\ rf_pc = "fixtures"
    /\ rf_written' = rf_written \cup FixturesWritten(rf_pages.fixtures)
    /\ rf_pc' = "footer"
    /\ UNCHANGED << rf_pages, rf_wrote, rf_results, rf_printed >>
    /\ UNCHANGED notRf

\* main lines 311-320 print the footer and main returns: the child ends
\* with return code 0, whatever the stages returned; run_scraper (lines
\* 29-31) returns True.
ChildExit ==
    /\ rf_pc = "footer"
    /\ rf_results' = DictSet(rf_results, "understat", ReturnValue("exit0"))
    /\ rf_pc' = "fpl"
    /\ UNCHANGED << rf_pages, rf_written, rf_wrote, rf_printed >>
    /\ UNCHANGED notRf

\* refresh_data.py lines 36-38: 120 s pass before the child has ended.
ChildTimeout ==
    /\ rf_pc \in { "players", "teams", "fixtures", "footer" }
    /\ rf_results' = DictSet(rf_results, "understat", ReturnValue("timeout"))
    /\ rf_pc' = "fpl"
    /\ UNCHANGED << rf_pages, rf_written, rf_wrote, rf_printed >>
    /\ UNCHANGED notRf

\* refresh_data.py lines 65-87.
RefreshSummary ==
    /\ rf_pc = "summary"
    /\ rf_printed' = rf_printed \o SummaryLines(rf_results)
    /\ rf_pc' = "done"
    /\ UNCHANGED << rf_pages, rf_written, rf_wrote, rf_results >>
    /\ UNCHANGED notRf

RfNext ==
    \/ \E o \in Outcomes, w \in BOOLEAN : RunOther(o, w)
    \/ ChildPlayers
    \/ ChildTeams
    \/ ChildFixtures
    \/ ChildExit
    \/ ChildTimeout
    \/ RefreshSummary

(***************************************************************************)
(* Claims about the summary.                                               *)
(***************************************************************************)

Reported(name, text) ==
    \E i \in DOMAIN rf_printed : rf_printed[i].name = name /\ rf_printed[i].text = text

EveryFetchFailed == \A s \in DOMAIN rf_pages : rf_pages[s].fetch # "ok"

\* C23: the summary reports the understat pipeline as SUCCESS only if its
\* script wrote at least one output file in this run; when every fetch of
\* the script failed the pipeline is reported as FAILED; and "Your local
\* data has been updated!" is printed only when some pipeline rewrote an
\* output file.
C23_SuccessMeansDataWritten ==
    rf_pc = "done" =>
        /\ Reported("understat", "SUCCESS") => rf_written # {}
        /\ EveryFetchFailed => Reported("understat", "FAILED")
        /\ Reported("", "Your local data has been updated!") =>
              (rf_written # {} \/ rf_wrote # {})

(***************************************************************************)
(* download_datahub.py: download_football_data_uk.                         *)
(***************************************************************************)

\* lines 26-32: the seasons in list order.
FOOTBALL_DATA_SEASONS == << "2425", "2324", "2223", "2122", "2021" >>

\* line 85: f"20{season[:2]}-{season[2:]}"
SeasonLabel(season) ==
    "20" \o SubSeq(season, 1, 2) \o "-" \o SubSeq(season, 3, Len(season))

\* The match rows a season file may hold.
SeasonRows ==
    { << >>,
      << [ HomeTeam |-> "A", AwayTeam |-> "B" ] >>,
      << [ HomeTeam |-> "A", AwayTeam |-> "B" ], [ HomeTeam |-> "B", AwayTeam |-> "A" ] >> }

\* What the GET of one season's E0.csv gives: the outcome of the fetch,
\* whether pd.read_csv can parse the text (an empty text raises
\* EmptyDataError), and the rows it holds.
SeasonResponse(fetch, parses, rows) == [ fetch |-> fetch, parses |-> parses, rows |-> rows ]

SeasonResponses ==
    { SeasonResponse(f, FALSE, << >>) : f \in FetchOutcomes }
    \cup { SeasonResponse("ok", TRUE, rows) : rows \in SeasonRows }

\* lines 78-86: does the body of the try reach all_matches.append.
SeasonSucceeds(response) == response.fetch = "ok" /\ response.parses

\* line 85: df["Season"] = label, on every row of the season's table.
WithSeason(rows, label) ==
    [ i \in DOMAIN rows |-> [ Season |-> label ] @@ rows[i] ]

\* lines 90-91: the except clause prints and the for loop goes on with the
\* next season.
AfterFailure_StopsLoop(i) == Len(FOOTBALL_DATA_SEASONS) + 1
AfterFailure(i) == i + 1

\* line 95: pd.concat(all_matches, ignore_index=True)
RECURSIVE ConcatFrames(_)
ConcatFrames(dfs) ==
    IF dfs = << >> THEN << >> ELSE dfs[1] \o ConcatFrames(Tail(dfs))

SnIdle ==
    /\ sn_pc = "idle"
    /\ sn_idx = 1
    /\ sn_responses = << >>
    /\ sn_attempted = << >>
    /\ sn_all_matches = << >>
    /\ sn_files = {}
    /\ sn_combined = NoFile

SnInit ==
    /\ sn_pc = "loop"
    /\ sn_idx = 1
    /\ sn_responses \in [ DOMAIN FOOTBALL_DATA_SEASONS -> SeasonResponses ]
    /\ sn_attempted = << >>
    /\ sn_all_matches = << >>
    /\ sn_files = {}
    /\ sn_combined = NoFile

\* One pass of the loop of lines 75-91 in which the try body completes:
\* the season file is written, parsed, tagged and appended.
SeasonDownloaded ==
    LET season == FOOTBALL_DATA_SEASONS[sn_idx]
        response == sn_responses[sn_idx]
    IN  /\ sn_pc = "loop"
        /\ SeasonSucceeds(response)
        /\ sn_attempted' = Append(sn_attempted, season)
        /\ sn_files' = sn_files \cup { "epl_" \o season \o ".csv" }
        /\ sn_all_matches' = Append(sn_all_matches,
                                    WithSeason(response.rows, SeasonLabel(season)))
        /\ sn_idx' = sn_idx + 1
        /\ sn_pc' = IF sn_idx = Len(FOOTBALL_DATA_SEASONS) THEN "combine" ELSE "loop"
        /\ UNCHANGED << sn_responses, sn_combined >>
        /\ UNCHANGED notSn

\* One pass of the loop in which the try body raises: at the GET or
\* raise_for_status (nothing written), or at read_csv (the season file is
\* already written, line 82).
SeasonFailed ==
    LET season == FOOTBALL_DATA_SEASONS[sn_idx]
        response == sn_responses[sn_idx]
    IN  /\ sn_pc = "loop"
        /\ ~SeasonSucceeds(response)
        /\ sn_attempted' = Append(sn_attempted, season)
        /\ sn_files' = IF response.fetch = "ok"
                       THEN sn_files \cup { "epl_" \o season \o ".csv" }
                       ELSE sn_files
        /\ sn_idx' = AfterFailure(sn_idx)
        /\ sn_pc' = IF AfterFailure(sn_idx) > Len(FOOTBALL_DATA_SEASONS)
                    THEN "combine" ELSE "loop"
        /\ UNCHANGED << sn_responses, sn_all_matches, sn_combined >>
        /\ UNCHANGED notSn

\* lines 93-98: the combined file, when all_matches is not empty.
CombineSeasons ==
    /\ sn_pc = "combine"
    /\ sn_combined' = IF sn_all_matches # << >>
                      THEN File(ConcatFrames(sn_all_matches))
                      ELSE sn_combined
    /\ sn_pc' = "done"
    /\ UNCHANGED << sn_idx, sn_responses, sn_attempted, sn_all_matches, sn_files >>
    /\ UNCHANGED notSn

SnNext ==
    \/ SeasonDownloaded
    \/ SeasonFailed
    \/ CombineSeasons

(***************************************************************************)
(* Claims about download_football_data_uk.                                 *)
(***************************************************************************)

\* The label each season of the list stands for.
LabelOf(season) ==
    CASE season = "2425" -> "2024-25"
      [] season = "2324" -> "2023-24"
      [] season = "2223" -> "2022-23"
      [] season = "2122" -> "2021-22"
      [] OTHER -> "2020-21"

\* The positions, in list order, of the seasons whose download and parse
\* succeeded.
GoodSeasons ==
    { i \in DOMAIN sn_responses :
        sn_responses[i].fetch = "ok" /\ sn_responses[i].parses }

\* The rows of the good seasons from position i on, in list order, each
\* with the label of its season.
RECURSIVE ExpectedFrom(_)
ExpectedFrom(i) ==
    IF i > Len(FOOTBALL_DATA_SEASONS) THEN << >>
    ELSE (IF i \in GoodSeasons
          THEN [ k \in DOMAIN sn_responses[i].rows |->
                   [ Season |-> LabelOf(FOOTBALL_DATA_SEASONS[i]),
                     HomeTeam |-> sn_responses[i].rows[k].HomeTeam,
                     AwayTeam |-> sn_responses[i].rows[k].AwayTeam ] ]
          ELSE << >>)
         \o ExpectedFrom(i + 1)

RECURSIVE RowCountFrom(_)
RowCountFrom(i) ==
    IF i > Len(FOOTBALL_DATA_SEASONS) THEN 0
    ELSE (IF i \in GoodSeasons THEN Len(sn_responses[i].rows) ELSE 0) + RowCountFrom(i + 1)

\* C26: a failed download or parse of one season never keeps the later
\* seasons from being attempted, in list order; epl_all_seasons.csv is
\* written exactly when at least one season succeeded, and then it holds
\* exactly the records of the seasons that succeeded in this run, in list
\* order, each with its own season label, as many as the successful
\* seasons hold together.
C26_SeasonsIndependent ==
    /\ IsPrefix(sn_attempted, FOOTBALL_DATA_SEASONS)
    /\ sn_pc \in { "combine", "done" } => sn_attempted = FOOTBALL_DATA_SEASONS
    /\ sn_pc = "done" =>
          /\ sn_combined.written <=> GoodSeasons # {}
          /\ sn_combined.written =>
                /\ sn_combined.rows = ExpectedFrom(1)
                /\ Len(sn_combined.rows) = RowCountFrom(1)

\* The first season fails at the GET, the second holds two matches, the
\* third does not parse, the fourth holds one match, the fifth fails: the
\* combined file holds the three records of the second and fourth season.
C26_Witness ==
    /\ sn_pc = "done"
    /\ sn_responses[1].fetch = "network_error"
    /\ sn_responses[2].fetch = "ok" /\ Len(sn_responses[2].rows) = 2
    /\ sn_responses[3].fetch = "ok" /\ ~sn_responses[3].parses
    /\ sn_responses[4].fetch = "ok" /\ Len(sn_responses[4].rows) = 1
    /\ sn_responses[5].fetch = "http_error"
    /\ sn_attempted = FOOTBALL_DATA_SEASONS
    /\ sn_combined.written
    /\ Len(sn_combined.rows) = 3
    /\ sn_combined.rows[1].Season = "2023-24"
    /\ sn_combined.rows[3].Season = "2021-22"

(***************************************************************************)
(* The specifications: one script runs, the others stay idle.              *)
(***************************************************************************)

Init == OrchInit /\ PsIdle /\ DhIdle /\ UsIdle /\ MgIdle /\ NzIdle /\ LcIdle /\ PlIdle /\ FpIdle /\ FxIdle /\ FbIdle /\ HdIdle /\ RfIdle /\ SnIdle

Next == OrchNext

Spec == Init /\ [][Next]_vars

InitPlayerStats == PsInit /\ OrchIdle /\ DhIdle /\ UsIdle /\ MgIdle /\ NzIdle /\ LcIdle /\ PlIdle /\ FpIdle /\ FxIdle /\ FbIdle /\ HdIdle /\ RfIdle /\ SnIdle

NextPlayerStats == PsNext

SpecPlayerStats == InitPlayerStats /\ [][NextPlayerStats]_vars

\* Either of the two aggregates runs.
InitStandings ==
    /\ OrchIdle
    /\ PsIdle
    /\ SnIdle
    /\ RfIdle
    /\ HdIdle
    /\ FbIdle
    /\ FxIdle
    /\ FpIdle
    /\ PlIdle
    /\ LcIdle
    /\ NzIdle
    /\ MgIdle
    /\ \/ DhInit /\ UsIdle
       \/ DhIdle /\ UsInit

NextStandings ==
    \/ DhNext
    \/ UsNext

SpecStandings == InitStandings /\ [][NextStandings]_vars

InitMerge == OrchIdle /\ PsIdle /\ DhIdle /\ UsIdle /\ MgInit /\ NzIdle /\ LcIdle /\ PlIdle /\ FpIdle /\ FxIdle /\ FbIdle /\ HdIdle /\ RfIdle /\ SnIdle

NextMerge == MgNext

SpecMerge == InitMerge /\ [][NextMerge]_vars

InitNormalizer == PsIdle /\ DhIdle /\ UsIdle /\ MgIdle /\ OrchIdle /\ NzInit /\ LcIdle /\ PlIdle /\ FpIdle /\ FxIdle /\ FbIdle /\ HdIdle /\ RfIdle /\ SnIdle

NextNormalizer == NzNext

SpecNormalizer == InitNormalizer /\ [][NextNormalizer]_vars

InitLocator == PsIdle /\ DhIdle /\ UsIdle /\ MgIdle /\ NzIdle /\ OrchIdle /\ LcInit /\ PlIdle /\ FpIdle /\ FxIdle /\ FbIdle /\ HdIdle /\ RfIdle /\ SnIdle

NextLocator == LcNext

SpecLocator == InitLocator /\ [][NextLocator]_vars

InitLeaguePlayers == PsIdle /\ DhIdle /\ UsIdle /\ MgIdle /\ NzIdle /\ LcIdle /\ OrchIdle /\ PlInit /\ FpIdle /\ FxIdle /\ FbIdle /\ HdIdle /\ RfIdle /\ SnIdle

NextLeaguePlayers == PlNext

SpecLeaguePlayers == InitLeaguePlayers /\ [][NextLeaguePlayers]_vars

InitFpl == PsIdle /\ DhIdle /\ UsIdle /\ MgIdle /\ NzIdle /\ LcIdle /\ PlIdle /\ OrchIdle /\ FpInit /\ FxIdle /\ FbIdle /\ HdIdle /\ RfIdle /\ SnIdle

NextFpl == FpNext

SpecFpl == InitFpl /\ [][NextFpl]_vars

InitFixtures == PsIdle /\ DhIdle /\ UsIdle /\ MgIdle /\ NzIdle /\ LcIdle /\ PlIdle /\ FpIdle /\ OrchIdle /\ FxInit /\ FbIdle /\ HdIdle /\ RfIdle /\ SnIdle

NextFixtures == FxNext

SpecFixtures == InitFixtures /\ [][NextFixtures]_vars

InitFbrefMain == PsIdle /\ DhIdle /\ UsIdle /\ MgIdle /\ NzIdle /\ LcIdle /\ PlIdle /\ FpIdle /\ FxIdle /\ OrchIdle /\ FbInit /\ HdIdle /\ RfIdle /\ SnIdle

NextFbrefMain == FbNext

SpecFbrefMain == InitFbrefMain /\ [][NextFbrefMain]_vars

InitHeaders == PsIdle /\ DhIdle /\ UsIdle /\ MgIdle /\ NzIdle /\ LcIdle /\ PlIdle /\ FpIdle /\ FxIdle /\ FbIdle /\ OrchIdle /\ HdInit /\ RfIdle /\ SnIdle

NextHeaders == HdNext

SpecHeaders == InitHeaders /\ [][NextHeaders]_vars

InitRefresh == PsIdle /\ DhIdle /\ UsIdle /\ MgIdle /\ NzIdle /\ LcIdle /\ PlIdle /\ FpIdle /\ FxIdle /\ FbIdle /\ HdIdle /\ OrchIdle /\ RfInit /\ SnIdle

NextRefresh == RfNext

SpecRefresh == InitRefresh /\ [][NextRefresh]_vars

InitSeasons == PsIdle /\ DhIdle /\ UsIdle /\ MgIdle /\ NzIdle /\ LcIdle /\ PlIdle /\ FpIdle /\ FxIdle /\ FbIdle /\ HdIdle /\ RfIdle /\ OrchIdle /\ SnInit

NextSeasons == SnNext

SpecSeasons == InitSeasons /\ [][NextSeasons]_vars

====
